---- MODULE Spec2Model ----
(***************************************************************************)
(* Dataflow graph engine of web-vi: the Runner (topologicalSort,           *)
(* resolveInputs, executeNode, executeWhileLoop, executeChildGraphIteration,*)
(* executeGraph) and the Diagram Lowering (convertToEngineGraph,           *)
(* buildChildGraph).  The Runner is modelled as a stack machine: one       *)
(* frame per active call of executeGraph / executeWhileLoop /              *)
(* executeChildGraphIteration, one step per node evaluated.                *)
(***************************************************************************)
EXTENDS Integers, Sequences, FiniteSets, TLC

VARIABLES pc, call, input, diagram, graph, stack, result, updates, error, history, steps, earlier

vars == <<pc, call, input, diagram, graph, stack, result, updates, error, history, steps, earlier>>

-----------------------------------------------------------------------------
(* Bounds of the model.                                                    *)

MaxSeed == 1
MaxCount == 3
MaxFlatEdges == 2
MaxValue == 40

(* The most nodes placed inside one container of an input diagram.         *)
MaxInternal == 5

(* The operands of the arithmetic graph are in -MaxOperand..MaxOperand.    *)
MaxOperand == 2

-----------------------------------------------------------------------------
(* JavaScript values: numbers, booleans, undefined and NaN.                *)

Num(n) == [k |-> "num", n |-> n]
Bool(b) == [k |-> "bool", n |-> IF b THEN 1 ELSE 0]
Undef == [k |-> "undef", n |-> 0]
NaN == [k |-> "nan", n |-> 0]

IsNaNNumber(v) == v.k \in {"undef", "nan"}

(* Mutation: an undefined operand counts as 0.                             *)
JsAddUndefinedAsZero(a, b) == Num((IF IsNaNNumber(a) THEN 0 ELSE a.n) + (IF IsNaNNumber(b) THEN 0 ELSE b.n))

JsAdd(a, b) == IF IsNaNNumber(a) \/ IsNaNNumber(b) THEN NaN ELSE Num(a.n + b.n)

(* Mutation: the operands of the subtraction are swapped.                  *)
JsSubSwapped(a, b) == IF IsNaNNumber(a) \/ IsNaNNumber(b) THEN NaN ELSE Num(b.n - a.n)

JsSub(a, b) == IF IsNaNNumber(a) \/ IsNaNNumber(b) THEN NaN ELSE Num(a.n - b.n)

JsLess(a, b) == IF IsNaNNumber(a) \/ IsNaNNumber(b) THEN Bool(FALSE) ELSE Bool(a.n < b.n)

Truthy(v) == v.k \in {"num", "bool"} /\ v.n # 0

(* Record<string, unknown> and Map<string, unknown>.                       *)
EmptyMap == [x \in {} |-> Undef]

Put(m, key, v) == [x \in (DOMAIN m) \cup {key} |-> IF x = key THEN v ELSE m[x]]

Get(m, key) == IF key \in DOMAIN m THEN m[key] ELSE Undef

SeqToSet(s) == {s[i] : i \in 1..Len(s)}

IndexOf(s, x) == IF x \in SeqToSet(s) THEN CHOOSE i \in 1..Len(s) : s[i] = x /\ \A j \in 1..(i - 1) : s[j] # x ELSE 0

-----------------------------------------------------------------------------
(* Graph schema.                                                           *)

NoGraph == [id |-> "", nodes |-> <<>>, edges |-> <<>>]

NoData == [value |-> Undef, amount |-> Undef, register |-> "", maxIterations |-> Undef]

Node(id, type, data, inputs, outputs) == [id |-> id, type |-> type, data |-> data, inputs |-> inputs, outputs |-> outputs, hasChild |-> FALSE, childGraph |-> NoGraph]

LoopNode(id, maxIterations, inputs, outputs, child) == [id |-> id, type |-> "WhileLoop", data |-> [NoData EXCEPT !.maxIterations = maxIterations], inputs |-> inputs, outputs |-> outputs, hasChild |-> TRUE, childGraph |-> child]

NoNode == Node("", "", NoData, <<>>, <<>>)

Edge(fromNode, fromTerminal, toNode, toTerminal) == [from |-> [nodeId |-> fromNode, terminal |-> fromTerminal], to |-> [nodeId |-> toNode, terminal |-> toTerminal]]

Graph(id, nodes, edges) == [id |-> id, nodes |-> nodes, edges |-> edges]

NodeIds(g) == {g.nodes[i].id : i \in 1..Len(g.nodes)}

HasNode(g, id) == id \in NodeIds(g)

(* new Map(graph.nodes.map(n => [n.id, n])).get(id): the last node of that id. *)
NodeMapGet(g, id) == g.nodes[CHOOSE i \in 1..Len(g.nodes) : g.nodes[i].id = id /\ \A j \in (i + 1)..Len(g.nodes) : g.nodes[j].id # id]

-----------------------------------------------------------------------------
(* topologicalSort: Kahn's algorithm over Maps that iterate in insertion   *)
(* order.                                                                  *)

RECURSIVE AppendNew(_, _)
AppendNew(keys, more) == IF more = <<>> THEN keys ELSE AppendNew(IF Head(more) \in SeqToSet(keys) THEN keys ELSE Append(keys, Head(more)), Tail(more))

InDegreeKeys(g) == AppendNew(AppendNew(<<>>, [i \in 1..Len(g.nodes) |-> g.nodes[i].id]), [i \in 1..Len(g.edges) |-> g.edges[i].to.nodeId])

InDegree(g) == [id \in SeqToSet(InDegreeKeys(g)) |-> Cardinality({i \in 1..Len(g.edges) : g.edges[i].to.nodeId = id})]

RECURSIVE Adjacency(_, _, _)
Adjacency(g, id, i) == IF i > Len(g.edges) THEN <<>> ELSE (IF g.edges[i].from.nodeId = id THEN <<g.edges[i].to.nodeId>> ELSE <<>>) \o Adjacency(g, id, i + 1)

RECURSIVE InitialQueue(_, _, _)
InitialQueue(keys, deg, i) == IF i > Len(keys) THEN <<>> ELSE (IF deg[keys[i]] = 0 THEN <<keys[i]>> ELSE <<>>) \o InitialQueue(keys, deg, i + 1)

RECURSIVE Relax(_, _, _)
Relax(adj, deg, queue) ==
  IF adj = <<>> THEN [deg |-> deg, queue |-> queue]
  ELSE LET neighbor == Head(adj)
           newDegree == deg[neighbor] - 1
       IN Relax(Tail(adj), [deg EXCEPT ![neighbor] = newDegree], IF newDegree = 0 THEN Append(queue, neighbor) ELSE queue)

RECURSIVE Kahn(_, _, _, _)
Kahn(g, queue, deg, sorted) ==
  IF queue = <<>> THEN sorted
  ELSE LET nodeId == Head(queue)
           r == Relax(Adjacency(g, nodeId, 1), deg, Tail(queue))
       IN Kahn(g, r.queue, r.deg, Append(sorted, nodeId))

NodeOrder(g) == [i \in 1..Len(g.nodes) |-> g.nodes[i].id]

(* Mutation: the nodes are run in the order the graph lists them.         *)
UnsortedOrder(g) == [i \in 1..Len(g.nodes) |-> g.nodes[i].id]

topologicalSort(g) == Kahn(g, InitialQueue(InDegreeKeys(g), InDegree(g), 1), InDegree(g), <<>>)

-----------------------------------------------------------------------------
(* resolveInputs, executeNode.                                             *)

(* Mutation: the first edge into a terminal wins.                          *)
RECURSIVE ResolveFirstWins(_, _, _, _, _)
ResolveFirstWins(node, g, nodeOutputs, i, inputs) ==
  IF i > Len(g.edges) THEN inputs
  ELSE LET edge == g.edges[i]
       IN ResolveFirstWins(node, g, nodeOutputs, i + 1,
            IF edge.to.nodeId = node.id /\ edge.from.nodeId \in DOMAIN nodeOutputs /\ edge.to.terminal \notin DOMAIN inputs
            THEN Put(inputs, edge.to.terminal, Get(nodeOutputs[edge.from.nodeId], edge.from.terminal))
            ELSE inputs)

RECURSIVE ResolveFrom(_, _, _, _, _)
ResolveFrom(node, g, nodeOutputs, i, inputs) ==
  IF i > Len(g.edges) THEN inputs
  ELSE LET edge == g.edges[i]
       IN ResolveFrom(node, g, nodeOutputs, i + 1,
            IF edge.to.nodeId = node.id /\ edge.from.nodeId \in DOMAIN nodeOutputs
            THEN Put(inputs, edge.to.terminal, Get(nodeOutputs[edge.from.nodeId], edge.from.terminal))
            ELSE inputs)

resolveInputs(node, g, nodeOutputs) == ResolveFrom(node, g, nodeOutputs, 1, EmptyMap)

executeNode(node, inputs) ==
  CASE node.type = "Constant" -> [value |-> node.data.value]
    [] node.type = "Indicator" -> inputs
    [] node.type = "Add" -> [result |-> JsAdd(Get(inputs, "a"), Get(inputs, "b"))]
    [] node.type = "Subtract" -> [result |-> JsSub(Get(inputs, "a"), Get(inputs, "b"))]
    [] node.type = "Increment" -> [result |-> JsAdd(Get(inputs, "value"), node.data.amount)]
    [] node.type = "LessThan" -> [result |-> JsLess(Get(inputs, "a"), Get(inputs, "b"))]
    [] OTHER -> EmptyMap

-----------------------------------------------------------------------------
(* executeWhileLoop and executeChildGraphIteration: the pieces.            *)

DefaultMaxIterations == 1000

MaxIterationsOf(node) == IF node.data.maxIterations.k = "undef" THEN Num(DefaultMaxIterations) ELSE node.data.maxIterations

ReadRegisters(g) == {g.nodes[i].data.register : i \in {j \in 1..Len(g.nodes) : g.nodes[j].type = "ShiftRegisterRead"}}

(* Mutation: every register the child graph reads is reset to 0, seeded or not. *)
InitReadsToZero(node, inputs) == [r \in (DOMAIN inputs) \cup ReadRegisters(node.childGraph) |-> IF r \in ReadRegisters(node.childGraph) THEN Num(0) ELSE inputs[r]]

(* Mutation: the registers are seeded from the inputs alone, without the   *)
(* 0-defaults.                                                             *)
InitFromInputsOnly(node, inputs) == [r \in DOMAIN inputs |-> inputs[r]]

(* Mutation: the register map outlives the call: a register that is not   *)
(* seeded from an input keeps the value the earlier call left in it.       *)
InitKeepsEarlierRegisters(node, inputs) ==
  LET kept == IF earlier = <<>> THEN EmptyMap ELSE earlier[1].registers
  IN [r \in (DOMAIN inputs) \cup ReadRegisters(node.childGraph) |-> IF r \in DOMAIN inputs THEN inputs[r] ELSE IF r \in DOMAIN kept THEN kept[r] ELSE Num(0)]

InitShiftRegisters(node, inputs) == [r \in (DOMAIN inputs) \cup ReadRegisters(node.childGraph) |-> IF r \in DOMAIN inputs THEN inputs[r] ELSE Num(0)]

(* Mutation: the cap is tested with <=.                                    *)
LoopGuardInclusive(iterations, maxIterations) == Truthy(JsLess(Num(iterations), JsAdd(maxIterations, Num(1))))

LoopGuard(iterations, maxIterations) == Truthy(JsLess(Num(iterations), maxIterations))

(* Mutation: iterations is never incremented.                              *)
SameIterations(iterations) == iterations

NextIterations(iterations) == iterations + 1

ShiftRegisterReadOutput(node, shiftRegisters) == [value |-> Get(shiftRegisters, node.data.register)]

childNodeOutputs(node, inputs, shiftRegisters) ==
  CASE node.type = "ShiftRegisterRead" -> ShiftRegisterReadOutput(node, shiftRegisters)
    [] node.type = "ShiftRegisterWrite" -> inputs
    [] node.type = "LoopCondition" -> inputs
    [] OTHER -> executeNode(node, inputs)

RECURSIVE CollectFrom(_, _, _, _)
CollectFrom(g, nodeOutputs, i, writes) ==
  IF i > Len(g.nodes) THEN writes
  ELSE LET node == g.nodes[i]
       IN CollectFrom(g, nodeOutputs, i + 1,
            IF node.type = "ShiftRegisterWrite" /\ node.id \in DOMAIN nodeOutputs
            THEN Put(writes, node.data.register, Get(nodeOutputs[node.id], "value"))
            ELSE writes)

(* Mutation: a write node that received no value leaves its register.     *)
CollectDefinedWrites(g, nodeOutputs) ==
  LET writes == CollectFrom(g, nodeOutputs, 1, EmptyMap)
  IN [r \in {x \in DOMAIN writes : writes[x].k # "undef"} |-> writes[r]]

CollectRegisterWrites(g, nodeOutputs) == CollectFrom(g, nodeOutputs, 1, EmptyMap)

RECURSIVE ConditionFrom(_, _, _, _)
ConditionFrom(g, nodeOutputs, i, shouldContinue) ==
  IF i > Len(g.nodes) THEN shouldContinue
  ELSE LET node == g.nodes[i]
       IN ConditionFrom(g, nodeOutputs, i + 1,
            IF node.type = "LoopCondition" /\ node.id \in DOMAIN nodeOutputs
            THEN Get(nodeOutputs[node.id], "continue")
            ELSE shouldContinue)

(* Mutation: the LoopCondition node is not consulted.                      *)
ShouldContinueIgnored(g, nodeOutputs) == Bool(TRUE)

(* Mutation: shouldContinue starts out false.                              *)
ShouldContinueDefaultFalse(g, nodeOutputs) == ConditionFrom(g, nodeOutputs, 1, Bool(FALSE))

(* Mutation: a condition that received no value counts as true.           *)
ShouldContinueUnlessFalse(g, nodeOutputs) == IF ConditionFrom(g, nodeOutputs, 1, Bool(TRUE)).k = "undef" THEN Bool(TRUE) ELSE ConditionFrom(g, nodeOutputs, 1, Bool(TRUE))

ShouldContinue(g, nodeOutputs) == ConditionFrom(g, nodeOutputs, 1, Bool(TRUE))

(* Mutation: the collected writes are dropped.                             *)
CommitNothing(shiftRegisters, registerWrites) == shiftRegisters

CommitWrites(shiftRegisters, registerWrites) == [r \in (DOMAIN shiftRegisters) \cup (DOMAIN registerWrites) |-> IF r \in DOMAIN registerWrites THEN registerWrites[r] ELSE shiftRegisters[r]]

(* Mutation: the loop leaves before committing the writes of the pass     *)
(* that ends it.                                                           *)
RegistersUnlessLastPass(shiftRegisters, registerWrites, shouldContinue, atCap) ==
  IF Truthy(shouldContinue) /\ ~atCap THEN CommitWrites(shiftRegisters, registerWrites) ELSE shiftRegisters

(* The registers after a pass: the writes are committed (197-200) before   *)
(* the condition is tested (203-205) and before the cap is tested again.   *)
RegistersAfterPass(shiftRegisters, registerWrites, shouldContinue, atCap) == CommitWrites(shiftRegisters, registerWrites)

(* Mutation: the position of the output is tried before its name.          *)
RegisterByPositionFirst(node, outputName) ==
  IF IndexOf(node.outputs, outputName) >= 1 /\ IndexOf(node.outputs, outputName) <= Len(node.inputs) THEN node.inputs[IndexOf(node.outputs, outputName)]
  ELSE IF outputName \in SeqToSet(node.inputs) THEN outputName
  ELSE outputName

(* Mutation: an output reads the register of its own name.                 *)
OutputNameRegister(node, outputName) == outputName

findRegisterForOutput(node, outputName) ==
  IF outputName \in SeqToSet(node.inputs) THEN outputName
  ELSE IF Len(node.inputs) = 1 /\ Len(node.outputs) = 1 THEN node.inputs[1]
  ELSE IF IndexOf(node.outputs, outputName) >= 1 /\ IndexOf(node.outputs, outputName) <= Len(node.inputs) THEN node.inputs[IndexOf(node.outputs, outputName)]
  ELSE outputName

LoopOutputs(node, shiftRegisters) == [t \in SeqToSet(node.outputs) |-> Get(shiftRegisters, findRegisterForOutput(node, t))]

(* Mutation: only the Indicators that hold a value are collected.          *)
CollectIndicatorsWithValue(g, nodeOutputs) == [id \in {n \in NodeIds(g) : NodeMapGet(g, n).type = "Indicator" /\ n \in DOMAIN nodeOutputs /\ Get(Get(nodeOutputs, n), "value") # Undef} |-> nodeOutputs[id]]

CollectIndicators(g, nodeOutputs) == [id \in {n \in NodeIds(g) : NodeMapGet(g, n).type = "Indicator" /\ n \in DOMAIN nodeOutputs} |-> nodeOutputs[id]]

-----------------------------------------------------------------------------
(* Call frames.                                                            *)

GraphFrame(fn, g, passStart) == [fn |-> fn, graph |-> g, node |-> NoNode, inputs |-> EmptyMap, sorted |-> topologicalSort(g), idx |-> 0, nodeOutputs |-> EmptyMap, trace |-> <<>>, shiftRegisters |-> EmptyMap, iterations |-> 0, exited |-> FALSE, conds |-> <<>>, seed |-> EmptyMap, passStart |-> passStart, lastWrites |-> EmptyMap]

LoopFrame(node, inputs) == [fn |-> "executeWhileLoop", graph |-> node.childGraph, node |-> node, inputs |-> inputs, sorted |-> <<>>, idx |-> 0, nodeOutputs |-> EmptyMap, trace |-> <<>>, shiftRegisters |-> InitShiftRegisters(node, inputs), iterations |-> 0, exited |-> FALSE, conds |-> <<>>, seed |-> InitShiftRegisters(node, inputs), passStart |-> EmptyMap, lastWrites |-> EmptyMap]

Top == stack[Len(stack)]

Caller == stack[Len(stack) - 1]

IsGraphFrame(f) == f.fn \in {"executeGraph", "executeChildGraphIteration"}

AtNode(f) == IsGraphFrame(f) /\ f.idx < Len(f.sorted)

CurrentId(f) == f.sorted[f.idx + 1]

CurrentNode(f) == NodeMapGet(f.graph, CurrentId(f))

SetOutput(f, nodeId, outputs) == [f EXCEPT !.nodeOutputs = Put(@, nodeId, outputs), !.idx = @ + 1, !.trace = Append(@, nodeId)]

ReplaceTop(f) == [stack EXCEPT ![Len(stack)] = f]

(* Mutation: a ShiftRegisterWrite stores into the register map at once.    *)
WriteThrough(node, inputs, shiftRegisters) == IF node.type = "ShiftRegisterWrite" THEN Put(shiftRegisters, node.data.register, Get(inputs, "value")) ELSE shiftRegisters

(* The pass leaves the register map alone: writes are only collected.      *)
RegistersDuringPass(node, inputs, shiftRegisters) == shiftRegisters

-----------------------------------------------------------------------------
(* Node vocabulary of the input graphs.                                    *)

Const(id, v) == Node(id, "Constant", [NoData EXCEPT !.value = v], <<>>, <<"value">>)

Indicator(id) == Node(id, "Indicator", NoData, <<"value">>, <<>>)

AddNode(id) == Node(id, "Add", NoData, <<"a", "b">>, <<"result">>)

SubtractNode(id) == Node(id, "Subtract", NoData, <<"a", "b">>, <<"result">>)

Increment(id, amount) == Node(id, "Increment", [NoData EXCEPT !.amount = Num(amount)], <<"value">>, <<"result">>)

LessThan(id) == Node(id, "LessThan", NoData, <<"a", "b">>, <<"result">>)

ShiftRegisterRead(id, register) == Node(id, "ShiftRegisterRead", [NoData EXCEPT !.register = register], <<>>, <<"value">>)

ShiftRegisterWrite(id, register) == Node(id, "ShiftRegisterWrite", [NoData EXCEPT !.register = register], <<"value">>, <<>>)

LoopCondition(id) == Node(id, "LoopCondition", NoData, <<"continue">>, <<>>)

-----------------------------------------------------------------------------
(* Input graphs: the graphs of the Runner's tests, with their numbers as   *)
(* parameters, and small flat graphs over every node order.                *)

LoopTestGraph(v0, loop) == Graph("root", <<Const("init", Num(v0)), loop, Indicator("display")>>, <<Edge("init", "value", "loop", "init"), Edge("loop", "result", "display", "value")>>)

IncrementBodyEdges == <<Edge("sr-read", "value", "inc", "value"), Edge("inc", "result", "sr-write", "value")>>

CounterLoop(limit, cap) ==
  LoopNode("loop", Num(cap), <<"init">>, <<"result">>,
    Graph("loop-inner",
      <<ShiftRegisterRead("sr-read", "init"), Increment("inc", 1), ShiftRegisterWrite("sr-write", "init"), Const("limit", Num(limit)), LessThan("cmp"), LoopCondition("condition")>>,
      IncrementBodyEdges \o <<Edge("inc", "result", "cmp", "a"), Edge("limit", "value", "cmp", "b"), Edge("cmp", "result", "condition", "continue")>>))

CounterLoopGraph(v0, limit, cap) == LoopTestGraph(v0, CounterLoop(limit, cap))

CapLoop(cap) ==
  LoopNode("loop", Num(cap), <<"init">>, <<"result">>,
    Graph("loop-inner",
      <<ShiftRegisterRead("sr-read", "init"), Increment("inc", 1), ShiftRegisterWrite("sr-write", "init"), Const("always-true", Bool(TRUE)), LoopCondition("condition")>>,
      IncrementBodyEdges \o <<Edge("always-true", "value", "condition", "continue")>>))

CapLoopGraph(v0, cap) == LoopTestGraph(v0, CapLoop(cap))

NoConditionLoop(cap) ==
  LoopNode("loop", Num(cap), <<"init">>, <<"result">>,
    Graph("loop-inner", <<ShiftRegisterRead("sr-read", "init"), Increment("inc", 1), ShiftRegisterWrite("sr-write", "init")>>, IncrementBodyEdges))

(* The loop with a LoopCondition node whose 'continue' input has no edge.  *)
OpenConditionLoop(cap) ==
  LoopNode("loop", Num(cap), <<"init">>, <<"result">>,
    Graph("loop-inner", <<ShiftRegisterRead("sr-read", "init"), Increment("inc", 1), ShiftRegisterWrite("sr-write", "init"), LoopCondition("condition")>>, IncrementBodyEdges))

NoConditionLoopGraph(v0, cap) == LoopTestGraph(v0, NoConditionLoop(cap))

(* CapLoop with an Indicator inside the child graph, on the incremented    *)
(* value.                                                                  *)
ProbeLoop(cap) ==
  LoopNode("loop", Num(cap), <<"init">>, <<"result">>,
    Graph("loop-inner",
      <<ShiftRegisterRead("sr-read", "init"), Increment("inc", 1), ShiftRegisterWrite("sr-write", "init"), Indicator("probe"), Const("always-true", Bool(TRUE)), LoopCondition("condition")>>,
      IncrementBodyEdges \o <<Edge("inc", "result", "probe", "value"), Edge("always-true", "value", "condition", "continue")>>))

(* A loop with declared inputs ins and outputs outs whose body adds 5 to   *)
(* register y on every pass and has no LoopCondition; its inputs a and b   *)
(* are fed by constants and each output feeds an Indicator.                *)
OutputsLoop(ins, outs, cap) ==
  LoopNode("loop", Num(cap), ins, outs,
    Graph("loop-inner", <<ShiftRegisterRead("read-y", "y"), Increment("inc-y", 5), ShiftRegisterWrite("write-y", "y")>>,
      <<Edge("read-y", "value", "inc-y", "value"), Edge("inc-y", "result", "write-y", "value")>>))

OutputShapes ==
  <<[ins |-> <<"a", "b">>, outs |-> <<"b", "x", "y">>],
    [ins |-> <<"a">>, outs |-> <<"x">>],
    [ins |-> <<"a">>, outs |-> <<"x", "y">>],
    [ins |-> <<"a", "b">>, outs |-> <<"x">>],
    [ins |-> <<>>, outs |-> <<"x">>]>>

OutputsGraph(v0, shape, cap) ==
  LET ins == OutputShapes[shape].ins
      outs == OutputShapes[shape].outs
  IN Graph("root",
       <<Const("a0", Num(v0)), Const("b0", Num(v0 + 1)), OutputsLoop(ins, outs, cap)>> \o [i \in 1..Len(outs) |-> Indicator("out-" \o outs[i])],
       [i \in 1..Len(ins) |-> Edge(ins[i] \o "0", "value", "loop", ins[i])] \o [i \in 1..Len(outs) |-> Edge("loop", outs[i], "out-" \o outs[i], "value")])

(* The cap test graph with the loop's 'init' input left unwired.           *)
UnwiredInitGraph(v0, cap) == Graph("root", <<Const("init", Num(v0)), CapLoop(cap), Indicator("display")>>, <<Edge("loop", "result", "display", "value")>>)

CounterNodes(prefix, limit) == <<ShiftRegisterRead(prefix \o "-iter-read", "iter"), Increment(prefix \o "-iter-inc", 1), ShiftRegisterWrite(prefix \o "-iter-write", "iter"), Const(prefix \o "-limit", Num(limit)), LessThan(prefix \o "-cmp"), LoopCondition(prefix \o "-condition")>>

CounterEdges(prefix) == <<Edge(prefix \o "-iter-read", "value", prefix \o "-iter-inc", "value"), Edge(prefix \o "-iter-inc", "result", prefix \o "-iter-write", "value"), Edge(prefix \o "-iter-inc", "result", prefix \o "-cmp", "a"), Edge(prefix \o "-limit", "value", prefix \o "-cmp", "b"), Edge(prefix \o "-cmp", "result", prefix \o "-condition", "continue")>>

InnerLoop(n, cap) ==
  LoopNode("inner-loop", Num(cap), <<"init">>, <<"result">>,
    Graph("inner-inner",
      <<ShiftRegisterRead("inner-sr-read", "init"), Increment("inner-inc", 1), ShiftRegisterWrite("inner-sr-write", "init")>> \o CounterNodes("inner", n),
      <<Edge("inner-sr-read", "value", "inner-inc", "value"), Edge("inner-inc", "result", "inner-sr-write", "value")>> \o CounterEdges("inner")))

OuterLoop(m, n, cap) ==
  LoopNode("outer-loop", Num(cap), <<"init">>, <<"result">>,
    Graph("outer-inner",
      <<ShiftRegisterRead("outer-sr-read", "init"), InnerLoop(n, cap), ShiftRegisterWrite("outer-sr-write", "init")>> \o CounterNodes("outer", m),
      <<Edge("outer-sr-read", "value", "inner-loop", "init"), Edge("inner-loop", "result", "outer-sr-write", "value")>> \o CounterEdges("outer")))

NestedLoopGraph(v0, m, n, cap) == Graph("root", <<Const("init-outer", Num(v0)), OuterLoop(m, n, cap), Indicator("display")>>, <<Edge("init-outer", "value", "outer-loop", "init"), Edge("outer-loop", "result", "display", "value")>>)

TwoRegisterGraph(a0, b0, loop) == Graph("root", <<Const("a0", Num(a0)), Const("b0", Num(b0)), loop, Indicator("out-a"), Indicator("out-b")>>, <<Edge("a0", "value", "loop", "a"), Edge("b0", "value", "loop", "b"), Edge("loop", "a", "out-a", "value"), Edge("loop", "b", "out-b", "value")>>)

(* A body that writes a <- b and b <- a.                                   *)
SwapLoop(cap) ==
  LoopNode("loop", Num(cap), <<"a", "b">>, <<"a", "b">>,
    Graph("loop-inner",
      <<ShiftRegisterRead("read-a", "a"), ShiftRegisterWrite("write-a", "a"), ShiftRegisterRead("read-b", "b"), ShiftRegisterWrite("write-b", "b")>>,
      <<Edge("read-b", "value", "write-a", "value"), Edge("read-a", "value", "write-b", "value")>>))

(* A body that writes a <- c and then, ordered after that write by an      *)
(* edge, reads a and writes b <- a.                                        *)
WriteThenReadLoop(c, cap) ==
  LoopNode("loop", Num(cap), <<"a", "b">>, <<"a", "b">>,
    Graph("loop-inner",
      <<ShiftRegisterRead("read-a", "a"), ShiftRegisterWrite("write-b", "b"), Const("c", Num(c)), ShiftRegisterWrite("write-a", "a")>>,
      <<Edge("c", "value", "write-a", "value"), Edge("write-a", "value", "read-a", "after"), Edge("read-a", "value", "write-b", "value")>>))

ChildlessLoop(id) == [LoopNode(id, Num(2), <<"init">>, <<"result">>, NoGraph) EXCEPT !.hasChild = FALSE]

ChildlessInsideLoop ==
  LoopNode("loop", Num(2), <<"init">>, <<"result">>,
    Graph("loop-inner", <<ShiftRegisterRead("sr-read", "init"), ChildlessLoop("inner-loop"), ShiftRegisterWrite("sr-write", "init")>>,
      <<Edge("sr-read", "value", "inner-loop", "init"), Edge("inner-loop", "result", "sr-write", "value")>>))

(* The loop test graph around a loop without a child graph, with an        *)
(* Indicator on the constant that is evaluated before the loop.            *)
ChildlessGraph(loop) ==
  Graph("root", <<Const("init", Num(0)), Indicator("early"), loop, Indicator("display")>>,
    <<Edge("init", "value", "early", "value"), Edge("init", "value", "loop", "init"), Edge("loop", "result", "display", "value")>>)

FlatNodes == <<Const("a", Num(1)), AddNode("b"), Indicator("c")>>

FlatEdges == {Edge("a", "value", "b", "a"), Edge("a", "value", "c", "value"), Edge("b", "result", "c", "value"), Edge("b", "result", "a", "x"), Edge("c", "value", "a", "x"), Edge("c", "value", "b", "b"), Edge("b", "result", "ghost", "value"), Edge("ghost", "value", "c", "value")}

Permutations3 == {p \in [1..3 -> 1..3] : \A i, j \in 1..3 : i # j => p[i] # p[j]}

FlatGraphs == {Graph("root", [i \in 1..3 |-> FlatNodes[p[i]]], es) : p \in Permutations3, es \in UNION {[1..n -> FlatEdges] : n \in 0..MaxFlatEdges}}

(* Two constants a and b feeding one node of each arithmetic kind, each    *)
(* shown by an Indicator: Add(a, b), Subtract(a, b), Increment(a) by       *)
(* amount b, LessThan(a, b) and the constant a itself.                     *)
ArithGraph(a, b) ==
  Graph("root",
    <<Const("a", Num(a)), Const("b", Num(b)), AddNode("add"), SubtractNode("sub"), Increment("inc", b), LessThan("lt"),
      Indicator("add-out"), Indicator("sub-out"), Indicator("inc-out"), Indicator("lt-out"), Indicator("a-out")>>,
    <<Edge("a", "value", "add", "a"), Edge("b", "value", "add", "b"),
      Edge("a", "value", "sub", "a"), Edge("b", "value", "sub", "b"),
      Edge("a", "value", "inc", "value"),
      Edge("a", "value", "lt", "a"), Edge("b", "value", "lt", "b"),
      Edge("add", "result", "add-out", "value"), Edge("sub", "result", "sub-out", "value"),
      Edge("inc", "result", "inc-out", "value"), Edge("lt", "result", "lt-out", "value"),
      Edge("a", "value", "a-out", "value")>>)

Operands == (0 - MaxOperand)..MaxOperand

Seeds == 0..MaxSeed

Counts == 0..MaxCount

NestedCap == MaxCount + 1

(* An input of the Runner: the family of the graph and its numbers.        *)
Case(family, v0, m, n) == [family |-> family, v0 |-> v0, m |-> m, n |-> n]

NoCase == Case("", 0, 0, 0)

FlatCase == Case("flat", 0, 0, 0)

(* A graph with a literal cycle of edges between "x" and "y": a constant   *)
(* "a" shown by "z", and "w" fed from the cycle alone (0); also "m" fed    *)
(* by "a" and by the cycle (1); also "v" fed by an id that is not a node   *)
(* of the graph (2).                                                       *)
CycleGraph(shape) ==
  Graph("root",
    <<Const("a", Num(1)), AddNode("x"), AddNode("y"), Indicator("z"), Indicator("w")>>
      \o (IF shape = 1 THEN <<AddNode("m")>> ELSE IF shape = 2 THEN <<Indicator("v")>> ELSE <<>>),
    <<Edge("a", "value", "z", "value"), Edge("x", "result", "y", "a"), Edge("y", "result", "x", "a"), Edge("y", "result", "w", "value")>>
      \o (IF shape = 1 THEN <<Edge("a", "value", "m", "a"), Edge("x", "result", "m", "b")>>
          ELSE IF shape = 2 THEN <<Edge("ghost", "value", "v", "value")>> ELSE <<>>))

LoopCases ==
  {Case("counter", v0, limit, cap) : v0 \in Seeds, limit \in Counts, cap \in Counts}
  \cup {Case("cap", v0, 0, cap) : v0 \in Seeds, cap \in Counts}
  \cup {Case("no-condition", v0, 0, cap) : v0 \in Seeds, cap \in Counts}
  \cup {Case("nested", v0, m, n) : v0 \in Seeds, m \in 1..MaxCount, n \in 1..MaxCount}
  \cup {Case("swap", a0, 0, cap) : a0 \in Seeds, cap \in Counts}
  \cup {Case("write-then-read", a0, 0, cap) : a0 \in Seeds, cap \in Counts}
  \cup {Case("childless", 0, depth, 0) : depth \in {0, 1}}
  \cup {Case("probe", v0, 0, cap) : v0 \in Seeds, cap \in Counts}
  \cup {Case("unwired-init", v0, 0, cap) : v0 \in Seeds, cap \in Counts}
  \cup {Case("outputs", v0, shape, cap) : v0 \in Seeds, shape \in 1..Len(OutputShapes), cap \in Counts}
  \cup {Case("arith", a, b, 0) : a \in Operands, b \in Operands}
  \cup {Case("open-condition", v0, 0, cap) : v0 \in Seeds, cap \in Counts}
  \cup {Case("cycle", 0, shape, 0) : shape \in 0..2}

CaseGraph(c) ==
  CASE c.family = "counter" -> CounterLoopGraph(c.v0, c.m, c.n)
    [] c.family = "cap" -> CapLoopGraph(c.v0, c.n)
    [] c.family = "no-condition" -> NoConditionLoopGraph(c.v0, c.n)
    [] c.family = "nested" -> NestedLoopGraph(c.v0, c.m, c.n, NestedCap)
    [] c.family = "swap" -> TwoRegisterGraph(c.v0, c.v0 + 1, SwapLoop(c.n))
    [] c.family = "write-then-read" -> TwoRegisterGraph(c.v0, c.v0 + 1, WriteThenReadLoop(c.v0 + 7, c.n))
    [] c.family = "childless" -> ChildlessGraph(IF c.m = 0 THEN ChildlessLoop("loop") ELSE ChildlessInsideLoop)
    [] c.family = "probe" -> LoopTestGraph(c.v0, ProbeLoop(c.n))
    [] c.family = "unwired-init" -> UnwiredInitGraph(c.v0, c.n)
    [] c.family = "outputs" -> OutputsGraph(c.v0, c.m, c.n)
    [] c.family = "arith" -> ArithGraph(c.v0, c.m)
    [] c.family = "open-condition" -> LoopTestGraph(c.v0, OpenConditionLoop(c.n))
    [] c.family = "cycle" -> CycleGraph(c.m)

-----------------------------------------------------------------------------
(* Diagram Lowering: convertToEngineGraph, convertSimpleNode,              *)
(* buildChildGraph.                                                        *)

(* A handle that is absent from the wire.                                  *)
NoHandle == "<absent>"

RFNode(id, type, parentNode, value, maxIterations) == [id |-> id, type |-> type, parentNode |-> parentNode, data |-> [value |-> value, maxIterations |-> maxIterations]]

RFEdge(id, source, sourceHandle, target, targetHandle) == [id |-> id, source |-> source, sourceHandle |-> sourceHandle, target |-> target, targetHandle |-> targetHandle]

(* Mutation: a type outside the vocabulary is lowered as a Constant.       *)
RF_TO_ENGINE_TYPE_Lenient(type) ==
  CASE type = "NumericControl" -> "Constant"
    [] type = "NumericIndicator" -> "Indicator"
    [] type = "Add" -> "Add"
    [] type = "Subtract" -> "Subtract"
    [] type = "WhileLoop" -> "WhileLoop"
    [] OTHER -> "Constant"

RF_TO_ENGINE_TYPE(type) ==
  CASE type = "NumericControl" -> "Constant"
    [] type = "NumericIndicator" -> "Indicator"
    [] type = "Add" -> "Add"
    [] type = "Subtract" -> "Subtract"
    [] type = "WhileLoop" -> "WhileLoop"
    [] OTHER -> ""

(* endsWith over the handle names the diagrams use.                        *)
EndsWithTunnelIn(handle) == handle \in {"init-tunnel-in", "-tunnel-in"}

EndsWithTunnelOut(handle) == handle \in {"result-tunnel-out", "-tunnel-out"}

(* Mutation: an absent handle is kept absent.                              *)
HandleAsIs(handle) == handle

HandleOrValue(handle) == IF handle = NoHandle THEN "value" ELSE handle

(* nodeParentMap.get(id): the parent of the last node of that id, "" when  *)
(* there is none.                                                          *)
ParentOf(rfNodes, id) ==
  IF \E i \in 1..Len(rfNodes) : rfNodes[i].id = id
  THEN rfNodes[CHOOSE i \in 1..Len(rfNodes) : rfNodes[i].id = id /\ \A j \in (i + 1)..Len(rfNodes) : rfNodes[j].id # id].parentNode
  ELSE ""

(* Mutation: the target handle is looked at before the source handle.      *)
EdgeClassTargetFirst(rfNodes, edge) ==
  LET sourceParent == ParentOf(rfNodes, edge.source)
      targetParent == ParentOf(rfNodes, edge.target)
  IN IF EndsWithTunnelOut(edge.targetHandle) THEN "tunnel-out"
     ELSE IF EndsWithTunnelIn(edge.sourceHandle) THEN "tunnel-in"
     ELSE IF sourceParent = "" /\ targetParent = "" THEN "top-level"
     ELSE IF sourceParent # "" /\ targetParent # "" /\ sourceParent = targetParent THEN "internal"
     ELSE "top-level"

EdgeClass(rfNodes, edge) ==
  LET sourceParent == ParentOf(rfNodes, edge.source)
      targetParent == ParentOf(rfNodes, edge.target)
  IN IF EndsWithTunnelIn(edge.sourceHandle) THEN "tunnel-in"
     ELSE IF EndsWithTunnelOut(edge.targetHandle) THEN "tunnel-out"
     ELSE IF sourceParent = "" /\ targetParent = "" THEN "top-level"
     ELSE IF sourceParent # "" /\ targetParent # "" /\ sourceParent = targetParent THEN "internal"
     ELSE "top-level"

RECURSIVE Filter(_, _, _)
Filter(seq, keep, i) == IF i > Len(seq) THEN <<>> ELSE (IF i \in keep THEN <<seq[i]>> ELSE <<>>) \o Filter(seq, keep, i + 1)

(* Mutation: a node whose parent is not in the diagram counts as           *)
(* top-level.                                                              *)
TopLevelNodesOrOrphans(rfNodes) == Filter(rfNodes, {i \in 1..Len(rfNodes) : rfNodes[i].parentNode = "" \/ \A j \in 1..Len(rfNodes) : rfNodes[j].id # rfNodes[i].parentNode}, 1)

TopLevelNodes(rfNodes) == Filter(rfNodes, {i \in 1..Len(rfNodes) : rfNodes[i].parentNode = ""}, 1)

ChildrenByParent(rfNodes, parentId) == Filter(rfNodes, {i \in 1..Len(rfNodes) : rfNodes[i].parentNode # "" /\ rfNodes[i].parentNode = parentId}, 1)

TopLevelEdges(rfNodes, rfEdges) == Filter(rfEdges, {i \in 1..Len(rfEdges) : EdgeClass(rfNodes, rfEdges[i]) = "top-level"}, 1)

TunnelInEdges(rfNodes, rfEdges, parentId) == Filter(rfEdges, {i \in 1..Len(rfEdges) : EdgeClass(rfNodes, rfEdges[i]) = "tunnel-in" /\ rfEdges[i].source = parentId}, 1)

TunnelOutEdges(rfNodes, rfEdges, parentId) == Filter(rfEdges, {i \in 1..Len(rfEdges) : EdgeClass(rfNodes, rfEdges[i]) = "tunnel-out" /\ rfEdges[i].target = parentId}, 1)

InternalEdges(rfNodes, rfEdges, parentId) == Filter(rfEdges, {i \in 1..Len(rfEdges) : EdgeClass(rfNodes, rfEdges[i]) = "internal" /\ ParentOf(rfNodes, rfEdges[i].source) = parentId}, 1)

OrDefault(v, default) == IF v.k = "undef" THEN default ELSE v

convertSimpleNode(rfNode) ==
  LET engineType == IF RF_TO_ENGINE_TYPE(rfNode.type) = "" THEN "Constant" ELSE RF_TO_ENGINE_TYPE(rfNode.type)
  IN CASE engineType = "Constant" -> Node(rfNode.id, "Constant", [NoData EXCEPT !.value = OrDefault(rfNode.data.value, Num(0))], <<>>, <<"value">>)
       [] engineType = "Indicator" -> Node(rfNode.id, "Indicator", NoData, <<"value">>, <<>>)
       [] engineType = "Add" -> Node(rfNode.id, "Add", NoData, <<"a", "b">>, <<"result">>)
       [] engineType = "Subtract" -> Node(rfNode.id, "Subtract", NoData, <<"a", "b">>, <<"result">>)
       [] OTHER -> Node(rfNode.id, engineType, [NoData EXCEPT !.value = rfNode.data.value, !.maxIterations = rfNode.data.maxIterations], <<>>, <<>>)

EngineEdge(edge) == Edge(edge.source, HandleOrValue(edge.sourceHandle), edge.target, HandleOrValue(edge.targetHandle))

(* Mutation: a tunnel-in wire keeps the loop boundary as its source.       *)
TunnelInEdgeUnrewritten(srReadId, edge) == Edge(edge.source, HandleOrValue(edge.sourceHandle), edge.target, HandleOrValue(edge.targetHandle))

TunnelInEdge(srReadId, edge) == Edge(srReadId, "value", edge.target, HandleOrValue(edge.targetHandle))

(* Mutation: a tunnel-out wire keeps the loop boundary as its target.      *)
TunnelOutEdgeUnrewritten(srWriteId, edge) == Edge(edge.source, HandleOrValue(edge.sourceHandle), edge.target, HandleOrValue(edge.targetHandle))

TunnelOutEdge(srWriteId, edge) == Edge(edge.source, HandleOrValue(edge.sourceHandle), srWriteId, "value")

(* Mutation: no iteration control is generated.                            *)
NoIterationControlNodes(loopId, maxIterations) == <<>>

(* Mutation: the counter's write node is bound to 'init'.                  *)
IterationControlNodesOnInit(loopId, maxIterations) ==
  <<ShiftRegisterRead(loopId \o "__iter-read", "iter"),
    Increment(loopId \o "__iter-inc", 1),
    ShiftRegisterWrite(loopId \o "__iter-write", "init"),
    Const(loopId \o "__limit", maxIterations),
    LessThan(loopId \o "__cmp"),
    LoopCondition(loopId \o "__condition")>>

IterationControlNodes(loopId, maxIterations) ==
  <<ShiftRegisterRead(loopId \o "__iter-read", "iter"),
    Increment(loopId \o "__iter-inc", 1),
    ShiftRegisterWrite(loopId \o "__iter-write", "iter"),
    Const(loopId \o "__limit", maxIterations),
    LessThan(loopId \o "__cmp"),
    LoopCondition(loopId \o "__condition")>>

(* Mutation: the counter is fed back by an edge from its write to its      *)
(* read.                                                                   *)
IterationControlEdgesCyclic(loopId) ==
  <<Edge(loopId \o "__iter-read", "value", loopId \o "__iter-inc", "value"),
    Edge(loopId \o "__iter-inc", "result", loopId \o "__iter-write", "value"),
    Edge(loopId \o "__iter-write", "value", loopId \o "__iter-read", "value"),
    Edge(loopId \o "__iter-inc", "result", loopId \o "__cmp", "a"),
    Edge(loopId \o "__limit", "value", loopId \o "__cmp", "b"),
    Edge(loopId \o "__cmp", "result", loopId \o "__condition", "continue")>>

IterationControlEdges(loopId) ==
  <<Edge(loopId \o "__iter-read", "value", loopId \o "__iter-inc", "value"),
    Edge(loopId \o "__iter-inc", "result", loopId \o "__iter-write", "value"),
    Edge(loopId \o "__iter-inc", "result", loopId \o "__cmp", "a"),
    Edge(loopId \o "__limit", "value", loopId \o "__cmp", "b"),
    Edge(loopId \o "__cmp", "result", loopId \o "__condition", "continue")>>

RECURSIVE buildChildGraph(_, _, _)
RECURSIVE ConvertNodes(_, _, _, _)
RECURSIVE ConvertNodesChildless(_, _, _, _)

(* Mutation: a loop container is lowered without its child graph.          *)
ConvertNodesChildless(list, rfNodes, rfEdges, i) ==
  IF i > Len(list) THEN <<>>
  ELSE LET rfNode == list[i]
           engineType == RF_TO_ENGINE_TYPE(rfNode.type)
       IN (IF engineType = "" THEN <<>>
           ELSE IF engineType = "WhileLoop" THEN <<ChildlessLoop(rfNode.id)>>
                ELSE <<convertSimpleNode(rfNode)>>)
          \o ConvertNodesChildless(list, rfNodes, rfEdges, i + 1)

(* The engine nodes of a list of diagram nodes: unknown types are dropped, *)
(* a loop container gets its child graph built.                            *)
ConvertNodes(list, rfNodes, rfEdges, i) ==
  IF i > Len(list) THEN <<>>
  ELSE LET rfNode == list[i]
           engineType == RF_TO_ENGINE_TYPE(rfNode.type)
       IN (IF engineType = "" THEN <<>>
           ELSE IF engineType = "WhileLoop"
                THEN <<LoopNode(rfNode.id, OrDefault(rfNode.data.maxIterations, Num(DefaultMaxIterations)), <<"init">>, <<"result">>, buildChildGraph(rfNode, rfNodes, rfEdges))>>
                ELSE <<convertSimpleNode(rfNode)>>)
          \o ConvertNodes(list, rfNodes, rfEdges, i + 1)

buildChildGraph(loopNode, rfNodes, rfEdges) ==
  LET loopId == loopNode.id
      maxIterations == OrDefault(loopNode.data.maxIterations, Num(DefaultMaxIterations))
      srReadId == loopId \o "__sr-read-init"
      srWriteId == loopId \o "__sr-write-init"
      tunnelIn == TunnelInEdges(rfNodes, rfEdges, loopId)
      tunnelOut == TunnelOutEdges(rfNodes, rfEdges, loopId)
      internal == InternalEdges(rfNodes, rfEdges, loopId)
  IN Graph(loopId \o "-child",
       <<ShiftRegisterRead(srReadId, "init")>>
         \o ConvertNodes(ChildrenByParent(rfNodes, loopId), rfNodes, rfEdges, 1)
         \o <<ShiftRegisterWrite(srWriteId, "init")>>
         \o IterationControlNodes(loopId, maxIterations),
       [i \in 1..Len(tunnelIn) |-> TunnelInEdge(srReadId, tunnelIn[i])]
         \o [i \in 1..Len(tunnelOut) |-> TunnelOutEdge(srWriteId, tunnelOut[i])]
         \o [i \in 1..Len(internal) |-> EngineEdge(internal[i])]
         \o IterationControlEdges(loopId))

convertToEngineGraph(rfNodes, rfEdges) ==
  LET top == TopLevelEdges(rfNodes, rfEdges)
  IN Graph("root", ConvertNodes(TopLevelNodes(rfNodes), rfNodes, rfEdges, 1), [i \in 1..Len(top) |-> EngineEdge(top[i])])

(* runDiagram: the Indicators whose "value" is not undefined.              *)
ProjectUpdates(outputs) == [id \in {i \in DOMAIN outputs : Get(outputs[i], "value").k # "undef"} |-> Get(outputs[id], "value")]

-----------------------------------------------------------------------------
(* Input diagrams: the diagrams of the converter's tests.                  *)

NoDiagram == [nodes |-> <<>>, edges |-> <<>>]

SingleLoopDiagram(c, n) ==
  [nodes |-> <<RFNode("init-val", "NumericControl", "", Num(c), Undef),
               RFNode("loop-1", "WhileLoop", "", Undef, Num(n)),
               RFNode("add-inside", "Add", "loop-1", Undef, Undef),
               RFNode("one-const", "NumericControl", "loop-1", Num(1), Undef),
               RFNode("result-ind", "NumericIndicator", "", Num(0), Undef)>>,
   edges |-> <<RFEdge("e1", "init-val", "value", "loop-1", "init"),
               RFEdge("e2", "loop-1", "result", "result-ind", "value"),
               RFEdge("e3", "loop-1", "init-tunnel-in", "add-inside", "a"),
               RFEdge("e4", "one-const", "value", "add-inside", "b"),
               RFEdge("e5", "add-inside", "result", "loop-1", "result-tunnel-out")>>]

NestedLoopDiagram(c, m, n) ==
  [nodes |-> <<RFNode("init-val", "NumericControl", "", Num(c), Undef),
               RFNode("outer-loop", "WhileLoop", "", Undef, Num(m)),
               RFNode("inner-loop", "WhileLoop", "outer-loop", Undef, Num(n)),
               RFNode("inc-node", "Add", "inner-loop", Undef, Undef),
               RFNode("one-const", "NumericControl", "inner-loop", Num(1), Undef),
               RFNode("result-ind", "NumericIndicator", "", Num(0), Undef)>>,
   edges |-> <<RFEdge("e1", "init-val", "value", "outer-loop", "init"),
               RFEdge("e2", "outer-loop", "result", "result-ind", "value"),
               RFEdge("e3", "outer-loop", "init-tunnel-in", "inner-loop", "init"),
               RFEdge("e4", "inner-loop", "result", "outer-loop", "result-tunnel-out"),
               RFEdge("e5", "inner-loop", "init-tunnel-in", "inc-node", "a"),
               RFEdge("e6", "one-const", "value", "inc-node", "b"),
               RFEdge("e7", "inc-node", "result", "inner-loop", "result-tunnel-out")>>]

(* SingleLoopDiagram with a wire from the node inside the container        *)
(* straight to a top-level indicator, on plain handles.                    *)
CrossBoundaryDiagram(c, n) ==
  [nodes |-> Append(SingleLoopDiagram(c, n).nodes, RFNode("probe-ind", "NumericIndicator", "", Num(0), Undef)),
   edges |-> Append(SingleLoopDiagram(c, n).edges, RFEdge("e6", "add-inside", "result", "probe-ind", "value"))]

(* SingleLoopDiagram without its tunnel-out wire: 'init' is wired, nothing *)
(* reaches the container's write node.                                     *)
NoTunnelOutDiagram(c, n) == [nodes |-> SingleLoopDiagram(c, n).nodes, edges |-> SubSeq(SingleLoopDiagram(c, n).edges, 1, 4)]

(* The values a diagram node's data can hold: a number, a boolean, nothing. *)
DataValue(kind, c) == IF kind = 0 THEN Num(c) ELSE IF kind = 1 THEN Bool(TRUE) ELSE Undef

DataKinds == {0, 1, 2}

(* The flat diagrams of the tests: two controls, an Add and an indicator,  *)
(* and a second indicator on the first control; wired fully (1), with the  *)
(* Add's second operand left open (2), not at all (0), or a lone control   *)
(* (3).                                                                    *)
FlatDiagram(v, wiring) ==
  IF wiring = 3 THEN [nodes |-> <<RFNode("ctrl-a", "NumericControl", "", v, Undef)>>, edges |-> <<>>]
  ELSE [nodes |-> <<RFNode("ctrl-a", "NumericControl", "", v, Undef),
                    RFNode("ctrl-b", "NumericControl", "", Num(1), Undef),
                    RFNode("add-1", "Add", "", Undef, Undef),
                    RFNode("ind-result", "NumericIndicator", "", Num(0), Undef),
                    RFNode("ind-direct", "NumericIndicator", "", Num(0), Undef)>>,
        edges |-> IF wiring = 0 THEN <<>>
                  ELSE <<RFEdge("e1", "ctrl-a", "value", "add-1", "a")>>
                       \o (IF wiring = 1 THEN <<RFEdge("e2", "ctrl-b", "value", "add-1", "b")>> ELSE <<>>)
                       \o <<RFEdge("e3", "add-1", "result", "ind-result", "value"), RFEdge("e4", "ctrl-a", NoHandle, "ind-direct", NoHandle)>>]

Wirings == {0, 1, 2, 3}

(* SingleLoopDiagram with the container's maxIterations a number, a        *)
(* boolean or absent.                                                      *)
CapConfigDiagram(kind, n) ==
  [nodes |-> [i \in 1..5 |-> IF i = 2 THEN RFNode("loop-1", "WhileLoop", "", Undef, DataValue(kind, n)) ELSE SingleLoopDiagram(0, n).nodes[i]],
   edges |-> SingleLoopDiagram(0, n).edges]

(* Flat diagrams as convertToEngineGraph accepts them: the fully wired     *)
(* flat diagram with one more node and one more wire. The node is a        *)
(* Subtract (0, 2, 3) or of a type outside the vocabulary, placed in the   *)
(* middle of the list (1); the wire has no handles (0, 1), a source handle *)
(* ending in "-tunnel-in" (2) or a target handle ending in "-tunnel-out"   *)
(* (3).                                                                    *)
FlatLoweringDiagram(variant) ==
  LET base == FlatDiagram(Num(0), 1)
      extra == RFNode("extra-1", IF variant = 1 THEN "Multiply" ELSE "Subtract", "", Undef, Undef)
  IN [nodes |-> SubSeq(base.nodes, 1, 2) \o <<extra>> \o SubSeq(base.nodes, 3, 5),
      edges |-> Append(base.edges,
                       RFEdge("e5", "ctrl-b", IF variant = 2 THEN "init-tunnel-in" ELSE NoHandle,
                              "extra-1", IF variant = 3 THEN "result-tunnel-out" ELSE NoHandle))]

FlatVariants == {0, 1, 2, 3}

(* The ids and types of the nodes placed inside the container.             *)
InternalIds == <<"in-1", "in-2", "in-3", "in-4", "in-5", "in-6">>

InternalTypes == <<"Add", "NumericControl", "Subtract", "NumericIndicator", "Add", "NumericControl">>

(* A loop container "loop-1" with k nodes inside, the first u of them of a *)
(* type outside the vocabulary. wires = 0: the container and its nodes     *)
(* alone. wires = 1: a control and an indicator on the container's 'init'  *)
(* and 'result' ports, and inside a tunnel-in wire, an internal wire       *)
(* without handles and a tunnel-out wire. wires = 2: also a wire from the  *)
(* tunnel-in handle straight to the tunnel-out handle, a wire from inside  *)
(* to the top-level indicator on plain handles, a tunnel-in wire without   *)
(* target handle, a tunnel-out wire without source handle, and a top-level *)
(* node of a type outside the vocabulary. wires = 3: the wires of 1 and an *)
(* internal wire back, closing a cycle of wires inside the container.      *)
LoopLoweringDiagram(u, k, wires) ==
  LET internal == [i \in 1..k |-> RFNode(InternalIds[i], IF i <= u THEN "Multiply" ELSE InternalTypes[i], "loop-1", Num(1), Undef)]
      loop == RFNode("loop-1", "WhileLoop", "", Undef, Num(2))
      has(i) == i <= k
      wire(cond, e) == IF cond THEN <<e>> ELSE <<>>
  IN IF wires = 0 THEN [nodes |-> <<loop>> \o internal, edges |-> <<>>]
     ELSE [nodes |-> <<RFNode("init-val", "NumericControl", "", Num(0), Undef), loop>>
                       \o internal
                       \o <<RFNode("result-ind", "NumericIndicator", "", Num(0), Undef)>>
                       \o wire(wires = 2, RFNode("mystery", "Gauge", "", Num(0), Undef)),
           edges |-> <<RFEdge("e1", "init-val", "value", "loop-1", "init"),
                       RFEdge("e2", "loop-1", "result", "result-ind", "value")>>
                       \o wire(has(1), RFEdge("e3", "loop-1", "init-tunnel-in", "in-1", "a"))
                       \o wire(has(2), RFEdge("e4", "in-2", NoHandle, "in-1", NoHandle))
                       \o wire(has(1), RFEdge("e5", "in-1", "result", "loop-1", "result-tunnel-out"))
                       \o wire(wires = 2, RFEdge("e6", "loop-1", "init-tunnel-in", "loop-1", "result-tunnel-out"))
                       \o wire(wires = 2 /\ has(1), RFEdge("e7", "in-1", "result", "result-ind", "value"))
                       \o wire(wires = 2 /\ has(3), RFEdge("e8", "loop-1", "init-tunnel-in", "in-3", NoHandle))
                       \o wire(wires = 2 /\ has(2), RFEdge("e9", "in-2", NoHandle, "loop-1", "result-tunnel-out"))
                       \o wire(wires = 3 /\ has(2), RFEdge("e10", "in-1", "result", "in-2", "a"))]

WireSets == {0, 1, 2, 3}

(* A loop container "loop-1" holding an Add "in-1" and a container         *)
(* "loop-2", which holds an Add "deep", a node "mid" of a type outside the *)
(* vocabulary and an Add "last"; and, by shape, nodes whose parent chain   *)
(* does not reach the top level through loop containers: the parent is not *)
(* in the diagram (1), is of a type outside the vocabulary, at top level   *)
(* or inside a container (2), is an Add (3), is one of two containers that *)
(* name each other as parent (4), or is the node itself (5). Shape 0 has   *)
(* no such node. A wire leaves the node "lost" for "in-1".                 *)
OrphanDiagram(shape) ==
  LET add(id, parent) == RFNode(id, "Add", parent, Undef, Undef)
      loop(id, parent) == RFNode(id, "WhileLoop", parent, Undef, Num(2))
      orphans == CASE shape = 1 -> <<add("lost", "ghost-loop")>>
                   [] shape = 2 -> <<RFNode("gauge-1", "Gauge", "", Num(0), Undef), add("lost", "gauge-1"), add("under-mid", "mid")>>
                   [] shape = 3 -> <<add("add-top", ""), add("lost", "add-top"), loop("lost-loop", "in-1"), add("under-lost-loop", "lost-loop")>>
                   [] shape = 4 -> <<loop("loop-a", "loop-b"), loop("loop-b", "loop-a"), add("lost", "loop-a")>>
                   [] shape = 5 -> <<loop("lost", "lost")>>
                   [] OTHER -> <<>>
  IN [nodes |-> <<RFNode("init-val", "NumericControl", "", Num(0), Undef),
                  loop("loop-1", ""),
                  add("in-1", "loop-1"),
                  loop("loop-2", "loop-1"),
                  add("deep", "loop-2"),
                  RFNode("mid", "Gauge", "loop-2", Num(0), Undef)>>
                  \o orphans
                  \o <<add("last", "loop-2"), RFNode("result-ind", "NumericIndicator", "", Num(0), Undef)>>,
      edges |-> <<RFEdge("e1", "init-val", "value", "loop-1", "init"),
                  RFEdge("e2", "loop-1", "result", "result-ind", "value"),
                  RFEdge("e3", "loop-1", "init-tunnel-in", "in-1", "a"),
                  RFEdge("e5", "in-1", "result", "loop-1", "result-tunnel-out")>>
                  \o (IF shape = 0 THEN <<>> ELSE <<RFEdge("e6", "lost", "result", "in-1", "b")>>)]

DiagramCases ==
  {Case("single-loop", c, 0, n) : c \in Seeds, n \in Counts}
  \cup {Case("nested-loops", c, m, n) : c \in Seeds, m \in Counts, n \in Counts}
  \cup {Case("cross-boundary", c, 0, n) : c \in Seeds, n \in Counts}
  \cup {Case("flat-diagram", c, wiring, kind) : c \in Seeds, wiring \in Wirings, kind \in DataKinds}
  \cup {Case("cap-config", 0, kind, n) : kind \in {0, 1}, n \in Counts}
  \cup {Case("no-tunnel-out", c, 0, n) : c \in Seeds, n \in Counts}

(* The diagrams convertToEngineGraph is called with on its own.            *)
LoweringCases ==
  {Case("cap-config", 0, kind, n) : kind \in DataKinds, n \in Counts}
  \cup {Case("flat-lowering", 0, variant, 0) : variant \in FlatVariants}
  \cup {Case("loop-lowering", u, k, wires) : u \in 0..MaxInternal, k \in 0..MaxInternal, wires \in WireSets}
  \cup {Case("orphans", 0, shape, 0) : shape \in 0..5}

CaseDiagram(c) ==
  CASE c.family = "single-loop" -> SingleLoopDiagram(c.v0, c.n)
    [] c.family = "nested-loops" -> NestedLoopDiagram(c.v0, c.m, c.n)
    [] c.family = "cross-boundary" -> CrossBoundaryDiagram(c.v0, c.n)
    [] c.family = "no-tunnel-out" -> NoTunnelOutDiagram(c.v0, c.n)
    [] c.family = "flat-diagram" -> FlatDiagram(DataValue(c.n, c.v0), c.m)
    [] c.family = "cap-config" -> CapConfigDiagram(c.m, c.n)
    [] c.family = "flat-lowering" -> FlatLoweringDiagram(c.m)
    [] c.family = "loop-lowering" -> LoopLoweringDiagram(c.v0, c.m, c.n)
    [] c.family = "orphans" -> OrphanDiagram(c.m)

(* The graphs and diagrams of the calls that are followed by or overlap    *)
(* with a second call.                                                     *)
RepeatCases ==
  {Case("counter", 1, 2, 3), Case("unwired-init", 1, 0, 2), Case("nested", 0, 2, 2), Case("childless", 0, 0, 0),
   Case("single-loop", 0, 0, 2), Case("single-loop", 1, 0, 3), Case("nested-loops", 1, 2, 1), Case("flat-diagram", 1, 1, 0)}

-----------------------------------------------------------------------------
(* The Runner as a stack machine.                                          *)

(* Mutation: the error does not say which node it is about.                *)
AnonymousError(node) == "WhileLoop"

(* new Error(`WhileLoop node "${node.id}" has no child graph`): the node   *)
(* the message names.                                                      *)
NoChildGraphError(node) == node.id

(* The conditions under which each step of a running call can be taken.    *)
CanSkipUnknownNode == AtNode(Top) /\ ~HasNode(Top.graph, CurrentId(Top))

CanEvaluateNode == AtNode(Top) /\ Top.fn = "executeGraph" /\ HasNode(Top.graph, CurrentId(Top)) /\ CurrentNode(Top).type # "WhileLoop"

CanEvaluateChildNode == AtNode(Top) /\ Top.fn = "executeChildGraphIteration" /\ HasNode(Top.graph, CurrentId(Top)) /\ CurrentNode(Top).type # "WhileLoop"

CanEnterWhileLoop == AtNode(Top) /\ HasNode(Top.graph, CurrentId(Top)) /\ CurrentNode(Top).type = "WhileLoop" /\ CurrentNode(Top).hasChild

CanThrowNoChildGraph == AtNode(Top) /\ HasNode(Top.graph, CurrentId(Top)) /\ CurrentNode(Top).type = "WhileLoop" /\ ~CurrentNode(Top).hasChild

CanBeginPass ==
  /\ Top.fn = "executeWhileLoop"
  /\ ~Top.exited
  /\ LoopGuard(Top.iterations, MaxIterationsOf(Top.node))
  /\ \A r \in DOMAIN Top.shiftRegisters : Top.shiftRegisters[r].n <= MaxValue

CanEndPass == Top.fn = "executeChildGraphIteration" /\ Top.idx = Len(Top.sorted)

CanExitWhileLoop == Top.fn = "executeWhileLoop" /\ (Top.exited \/ ~LoopGuard(Top.iterations, MaxIterationsOf(Top.node)))

CanReturnResult == Top.fn = "executeGraph" /\ Top.idx = Len(Top.sorted)

CanStep == CanSkipUnknownNode \/ CanEvaluateNode \/ CanEvaluateChildNode \/ CanEnterWhileLoop \/ CanThrowNoChildGraph \/ CanBeginPass \/ CanEndPass \/ CanExitWhileLoop \/ CanReturnResult

(* `const result = await executeGraph(graph)`: the result the continuation *)
(* of runDiagram reads is the one its own executeGraph returned.           *)
(* Mutation: it is the one returned last, to whichever call.               *)
AwaitedResultShared(own, latest) == latest

AwaitedResult(own, latest) == own

(* What is kept of a call when the caller makes another one.               *)
CallRecord == [call |-> call, input |-> input, graph |-> graph, pc |-> pc, result |-> result, updates |-> updates, error |-> error,
               registers |-> IF history = <<>> THEN EmptyMap ELSE history[Len(history)].registers,
               resumedBeside |-> [input |-> NoCase, pc |-> ""]]

(* A call is the first one, or it follows a call of the same function on   *)
(* one of the repeated inputs and is on one of them itself.                *)
SecondCallOf(fn, c) == IF earlier = <<>> THEN TRUE ELSE earlier[1].call = fn /\ c \in RepeatCases

Init ==
  /\ pc = "idle"
  /\ call = ""
  /\ input = NoCase
  /\ diagram = NoDiagram
  /\ updates = EmptyMap
  /\ graph = NoGraph
  /\ stack = <<>>
  /\ result = EmptyMap
  /\ error = ""
  /\ history = <<>>
  /\ steps = 0
  /\ earlier = <<>>

(* executeGraph(graph): the call.                                          *)
ExecuteGraph ==
  /\ pc = "idle"
  /\ \/ \E g \in FlatGraphs : earlier = <<>> /\ input' = FlatCase /\ graph' = g
     \/ \E c \in LoopCases : SecondCallOf("executeGraph", c) /\ input' = c /\ graph' = CaseGraph(c)
  /\ stack' = <<GraphFrame("executeGraph", graph', EmptyMap)>>
  /\ pc' = "running"
  /\ call' = "executeGraph"
  /\ UNCHANGED <<diagram, result, updates, error, history, steps, earlier>>

(* runDiagram(nodes, edges): the diagram is lowered and the graph is run.  *)
RunDiagram ==
  /\ pc = "idle"
  /\ \E c \in DiagramCases :
       /\ SecondCallOf("runDiagram", c)
       /\ input' = c
       /\ diagram' = CaseDiagram(c)
       /\ graph' = convertToEngineGraph(CaseDiagram(c).nodes, CaseDiagram(c).edges)
  /\ stack' = <<GraphFrame("executeGraph", graph', EmptyMap)>>
  /\ pc' = "running"
  /\ call' = "runDiagram"
  /\ UNCHANGED <<result, updates, error, history, steps, earlier>>

(* convertToEngineGraph(nodes, edges) called on its own: the lowered graph *)
(* is returned and not run.                                                *)
ConvertDiagram ==
  /\ pc = "idle"
  /\ earlier = <<>>
  /\ \E c \in LoweringCases :
       /\ input' = c
       /\ diagram' = CaseDiagram(c)
       /\ graph' = convertToEngineGraph(CaseDiagram(c).nodes, CaseDiagram(c).edges)
  /\ pc' = "done"
  /\ call' = "convertToEngineGraph"
  /\ UNCHANGED <<stack, result, updates, error, history, steps, earlier>>

(* A sorted id that names no node of the graph is passed over.             *)
SkipUnknownNode ==
  /\ pc = "running"
  /\ CanSkipUnknownNode
  /\ stack' = ReplaceTop([Top EXCEPT !.idx = @ + 1])
  /\ steps' = steps + 1
  /\ UNCHANGED <<pc, call, input, diagram, graph, result, updates, error, history, earlier>>

(* executeGraph: one primitive node.                                       *)
EvaluateNode ==
  /\ pc = "running"
  /\ CanEvaluateNode
  /\ LET node == CurrentNode(Top)
         inputs == resolveInputs(node, Top.graph, Top.nodeOutputs)
     IN stack' = ReplaceTop(SetOutput(Top, node.id, executeNode(node, inputs)))
  /\ steps' = steps + 1
  /\ UNCHANGED <<pc, call, input, diagram, graph, result, updates, error, history, earlier>>

(* executeChildGraphIteration: one node that is not a nested loop.         *)
EvaluateChildNode ==
  /\ pc = "running"
  /\ CanEvaluateChildNode
  /\ LET node == CurrentNode(Top)
         inputs == resolveInputs(node, Top.graph, Top.nodeOutputs)
         loop == Caller
         n == Len(stack)
     IN stack' = [stack EXCEPT ![n] = SetOutput(Top, node.id, childNodeOutputs(node, inputs, loop.shiftRegisters)),
                               ![n - 1] = [loop EXCEPT !.shiftRegisters = RegistersDuringPass(node, inputs, loop.shiftRegisters)]]
  /\ steps' = steps + 1
  /\ UNCHANGED <<pc, call, input, diagram, graph, result, updates, error, history, earlier>>

(* executeWhileLoop(node, inputs): the call, from either kind of pass.     *)
EnterWhileLoop ==
  /\ pc = "running"
  /\ CanEnterWhileLoop
  /\ LET node == CurrentNode(Top)
     IN stack' = Append(stack, LoopFrame(node, resolveInputs(node, Top.graph, Top.nodeOutputs)))
  /\ steps' = steps + 1
  /\ UNCHANGED <<pc, call, input, diagram, graph, result, updates, error, history, earlier>>

(* executeWhileLoop throws: the node has no child graph.                   *)
ThrowNoChildGraph ==
  /\ pc = "running"
  /\ CanThrowNoChildGraph
  /\ pc' = "error"
  /\ error' = NoChildGraphError(CurrentNode(Top))
  /\ stack' = <<>>
  /\ steps' = steps + 1
  /\ UNCHANGED <<call, input, diagram, graph, result, updates, history, earlier>>

(* while (iterations < maxIterations): a pass begins.                      *)
BeginPass ==
  /\ pc = "running"
  /\ CanBeginPass
  /\ stack' = Append(stack, GraphFrame("executeChildGraphIteration", Top.graph, Top.shiftRegisters))
  /\ steps' = steps + 1
  /\ UNCHANGED <<pc, call, input, diagram, graph, result, updates, error, history, earlier>>

(* The pass returns: iterations++, the writes are committed, the           *)
(* condition is tested.                                                    *)
EndPass ==
  /\ pc = "running"
  /\ CanEndPass
  /\ LET registerWrites == CollectRegisterWrites(Top.graph, Top.nodeOutputs)
         shouldContinue == ShouldContinue(Top.graph, Top.nodeOutputs)
         loop == Caller
         n == Len(stack)
     IN stack' = [SubSeq(stack, 1, n - 1) EXCEPT ![n - 1] =
                    [loop EXCEPT !.iterations = NextIterations(@),
                                 !.shiftRegisters = RegistersAfterPass(@, registerWrites, shouldContinue, ~LoopGuard(NextIterations(loop.iterations), MaxIterationsOf(loop.node))),
                                 !.lastWrites = registerWrites,
                                 !.exited = ~Truthy(shouldContinue),
                                 !.conds = Append(@, Truthy(shouldContinue))]]
  /\ steps' = steps + 1
  /\ UNCHANGED <<pc, call, input, diagram, graph, result, updates, error, history, earlier>>

(* The loop is over: its outputs are read from the registers.              *)
ExitWhileLoop ==
  /\ pc = "running"
  /\ CanExitWhileLoop
  /\ LET outputs == LoopOutputs(Top.node, Top.shiftRegisters)
         n == Len(stack)
     IN /\ stack' = [SubSeq(stack, 1, n - 1) EXCEPT ![n - 1] = SetOutput(Caller, Top.node.id, outputs)]
        /\ history' = Append(history, [loop |-> Top.node.id, declaredInputs |-> Top.node.inputs, declaredOutputs |-> Top.node.outputs, depth |-> n, cap |-> MaxIterationsOf(Top.node), inputs |-> Top.inputs, seed |-> Top.seed, passes |-> Top.iterations, conds |-> Top.conds, registers |-> Top.shiftRegisters, lastWrites |-> Top.lastWrites, outputs |-> outputs])
  /\ steps' = steps + 1
  /\ UNCHANGED <<pc, call, input, diagram, graph, result, updates, error, earlier>>

(* executeGraph returns the Indicator outputs.                             *)
ReturnResult ==
  /\ pc = "running"
  /\ CanReturnResult
  /\ result' = CollectIndicators(Top.graph, Top.nodeOutputs)
  /\ pc' = IF call = "runDiagram" THEN "awaiting" ELSE "done"
  /\ stack' = <<>>
  /\ steps' = steps + 1
  /\ UNCHANGED <<call, input, diagram, graph, updates, error, history, earlier>>

(* runDiagram after the await: the Indicator values are projected into the *)
(* map it returns.                                                         *)
ResumeRunDiagram ==
  /\ pc = "awaiting"
  /\ updates' = ProjectUpdates(AwaitedResult(result, result))
  /\ pc' = "done"
  /\ UNCHANGED <<call, input, diagram, graph, stack, result, error, history, steps, earlier>>

(* The caller makes a second call, after the first has settled or while    *)
(* its runDiagram is suspended at the await.                               *)
CallAgain ==
  /\ pc \in {"awaiting", "done", "error"}
  /\ call \in {"executeGraph", "runDiagram"}
  /\ input \in RepeatCases
  /\ earlier = <<>>
  /\ earlier' = <<CallRecord>>
  /\ pc' = "idle"
  /\ call' = ""
  /\ input' = NoCase
  /\ diagram' = NoDiagram
  /\ graph' = NoGraph
  /\ stack' = <<>>
  /\ result' = EmptyMap
  /\ updates' = EmptyMap
  /\ error' = ""
  /\ history' = <<>>
  /\ steps' = 0

(* The earlier runDiagram resumes after its await, while the later call is *)
(* not in its synchronous part.                                            *)
ResumeEarlier ==
  /\ pc # "running"
  /\ IF earlier = <<>> THEN FALSE ELSE earlier[1].pc = "awaiting"
  /\ earlier' = <<[earlier[1] EXCEPT !.updates = ProjectUpdates(AwaitedResult(earlier[1].result, result)), !.pc = "done", !.resumedBeside = [input |-> input, pc |-> pc]]>>
  /\ UNCHANGED <<pc, call, input, diagram, graph, stack, result, updates, error, history, steps>>

Next ==
  \/ ExecuteGraph
  \/ RunDiagram
  \/ ConvertDiagram
  \/ SkipUnknownNode
  \/ EvaluateNode
  \/ EvaluateChildNode
  \/ EnterWhileLoop
  \/ ThrowNoChildGraph
  \/ BeginPass
  \/ EndPass
  \/ ExitWhileLoop
  \/ ReturnResult
  \/ ResumeRunDiagram
  \/ CallAgain
  \/ ResumeEarlier

Spec == Init /\ [][Next]_vars

-----------------------------------------------------------------------------
(* Vocabulary of the properties.                                           *)

EdgePairs(g) == {<<g.edges[i].from.nodeId, g.edges[i].to.nodeId>> : i \in 1..Len(g.edges)}

RECURSIVE Closure(_, _)
Closure(R, k) == IF k = 0 THEN R ELSE Closure(R \cup {<<xy[1][1], xy[2][2]>> : xy \in {q \in R \X R : q[1][2] = q[2][1]}}, k - 1)

Acyclic(g) == \A p \in Closure(EdgePairs(g), Len(g.nodes)) : p[1] # p[2]

EdgesWithinGraph(g) == \A p \in EdgePairs(g) : p[1] \in NodeIds(g) /\ p[2] \in NodeIds(g)

Before(trace, x, y) == IndexOf(trace, x) >= 1 /\ IndexOf(trace, y) >= 1 /\ IndexOf(trace, x) < IndexOf(trace, y)

Frames == {stack[i] : i \in 1..Len(stack)}

Invocations == {history[i] : i \in 1..Len(history)}

Min(a, b) == IF a < b THEN a ELSE b

Max(a, b) == IF a > b THEN a ELSE b

RECURSIVE AllLoopsHaveChildGraph(_)
AllLoopsHaveChildGraph(g) == \A i \in 1..Len(g.nodes) : g.nodes[i].type = "WhileLoop" => (g.nodes[i].hasChild /\ AllLoopsHaveChildGraph(g.nodes[i].childGraph))

Display(v) == [display |-> [value |-> v]]

TwoOutputs(a, b) == [x \in {"out-a", "out-b"} |-> [value |-> IF x = "out-a" THEN Num(a) ELSE Num(b)]]

HasEdgeInto(g, id, terminal) == \E i \in 1..Len(g.edges) : g.edges[i].to.nodeId = id /\ g.edges[i].to.terminal = terminal

FreshSeed(node, inputs, seed) ==
  /\ DOMAIN seed = (DOMAIN inputs) \cup ReadRegisters(node.childGraph)
  /\ \A r \in DOMAIN seed : seed[r] = IF r \in DOMAIN inputs THEN inputs[r] ELSE Num(0)

RECURSIVE StepBudget(_)
RECURSIVE SumBudget(_, _)
SumBudget(g, i) ==
  IF i > Len(g.nodes) THEN 0
  ELSE (IF g.nodes[i].type = "WhileLoop" /\ g.nodes[i].hasChild
        THEN 2 + Max(MaxIterationsOf(g.nodes[i]).n, 0) * (2 + StepBudget(g.nodes[i].childGraph))
        ELSE 1) + SumBudget(g, i + 1)

StepBudget(g) == SumBudget(g, 1) + Len(g.edges)

(* A diagram is being lowered or has been lowered by the call in progress. *)
Lowered == call \in {"runDiagram", "convertToEngineGraph"}

(* No node has a parent container and no node is a loop container.         *)
IsFlat(d) == \A i \in 1..Len(d.nodes) : d.nodes[i].parentNode = "" /\ d.nodes[i].type # "WhileLoop"

Vocabulary == {"NumericControl", "NumericIndicator", "Add", "Subtract", "WhileLoop"}

AllTypesKnown(d) == \A i \in 1..Len(d.nodes) : d.nodes[i].type \in Vocabulary

TunnelHandles == {"init-tunnel-in", "-tunnel-in", "result-tunnel-out", "-tunnel-out"}

NoTunnelHandles(d) == \A i \in 1..Len(d.edges) : d.edges[i].sourceHandle \notin TunnelHandles /\ d.edges[i].targetHandle \notin TunnelHandles

(* The engine edge a wire stands for: same endpoints, absent handles read  *)
(* as "value".                                                             *)
WireAsEdge(w) == Edge(w.source, IF w.sourceHandle = NoHandle THEN "value" ELSE w.sourceHandle, w.target, IF w.targetHandle = NoHandle THEN "value" ELSE w.targetHandle)

OneToOne(d, g) ==
  /\ Len(g.nodes) = Len(d.nodes)
  /\ \A i \in 1..Len(d.nodes) : g.nodes[i].id = d.nodes[i].id
  /\ Len(g.edges) = Len(d.edges)
  /\ \A i \in 1..Len(d.edges) : g.edges[i] = WireAsEdge(d.edges[i])

(* The number of engine nodes in a lowered graph and the child graphs      *)
(* below it.                                                               *)
RECURSIVE TreeSize(_)
RECURSIVE TreeSizeFrom(_, _)
TreeSizeFrom(g, i) == IF i > Len(g.nodes) THEN 0 ELSE 1 + (IF g.nodes[i].hasChild THEN TreeSize(g.nodes[i].childGraph) ELSE 0) + TreeSizeFrom(g, i + 1)

TreeSize(g) == TreeSizeFrom(g, 1)

(* The ids of the engine nodes in a lowered graph and the child graphs     *)
(* below it.                                                               *)
RECURSIVE TreeIds(_)
TreeIds(g) == NodeIds(g) \cup UNION {TreeIds(g.nodes[i].childGraph) : i \in {j \in 1..Len(g.nodes) : g.nodes[j].hasChild}}

(* The loop nodes of a lowered graph and of the child graphs below it.     *)
RECURSIVE LoopsIn(_)
LoopsIn(g) == UNION {{g.nodes[i]} \cup LoopsIn(g.nodes[i].childGraph) : i \in {j \in 1..Len(g.nodes) : g.nodes[j].hasChild}}

Containers(d) == {i \in 1..Len(d.nodes) : d.nodes[i].type = "WhileLoop"}

InternalNodes(d, loopId) == {i \in 1..Len(d.nodes) : d.nodes[i].parentNode = loopId}

(* One loop container, at the top level, and nothing nested in it.         *)
IsSingleLoop(d) ==
  /\ Cardinality(Containers(d)) = 1
  /\ \A i \in Containers(d) : d.nodes[i].parentNode = ""
  /\ \A i \in 1..Len(d.nodes) : d.nodes[i].parentNode # "" => \E j \in Containers(d) : d.nodes[i].parentNode = d.nodes[j].id

TheLoop(d) == d.nodes[CHOOSE i \in Containers(d) : TRUE].id

TypesOf(nodes) == [i \in 1..Len(nodes) |-> nodes[i].type]

IsChildOf(d, id, container) == \E i \in 1..Len(d.nodes) : d.nodes[i].id = id /\ d.nodes[i].parentNode = container

ContainerIds(d) == {d.nodes[i].parentNode : i \in 1..Len(d.nodes)} \ {""}

(* The class of a wire, decided in the order: tunnel-in, tunnel-out,       *)
(* internal, top-level.                                                    *)
WireClass(d, w) ==
  IF w.sourceHandle \in {"init-tunnel-in", "-tunnel-in"} THEN "tunnel-in"
  ELSE IF w.targetHandle \in {"result-tunnel-out", "-tunnel-out"} THEN "tunnel-out"
  ELSE IF \E c \in ContainerIds(d) : IsChildOf(d, w.source, c) /\ IsChildOf(d, w.target, c) THEN "internal"
  ELSE "top-level"

WiresOfClass(d, class) == {i \in 1..Len(d.edges) : WireClass(d, d.edges[i]) = class}

EdgeSet(g) == {g.edges[i] : i \in 1..Len(g.edges)}

(* The map runDiagram returns for a diagram when it is the only call.      *)
AloneUpdates(c) ==
  CASE c.family = "single-loop" -> [x \in {"result-ind"} |-> Num(c.v0 + c.n)]
    [] c.family = "nested-loops" -> [x \in {"result-ind"} |-> Num(c.v0 + c.m * c.n)]
    [] c.family = "flat-diagram" -> [x \in {"ind-result", "ind-direct"} |-> IF x = "ind-result" THEN Num(c.v0 + 1) ELSE Num(c.v0)]

(* The edges into terminal t of node id through which a value is read in  *)
(* frame f: those whose source was evaluated before the node.              *)
EdgesRead(f, id, t) ==
  {i \in 1..Len(f.graph.edges) :
     /\ f.graph.edges[i].to = [nodeId |-> id, terminal |-> t]
     /\ f.graph.edges[i].from.nodeId \in DOMAIN f.nodeOutputs
     /\ Before(f.trace, f.graph.edges[i].from.nodeId, id)}

SetMax(S) == CHOOSE x \in S : \A y \in S : y <= x

TerminalsInto(g, id) == {g.edges[i].to.terminal : i \in {j \in 1..Len(g.edges) : g.edges[j].to.nodeId = id}}

(* The non-tunnel wires of a diagram form no directed cycle.               *)
WiresAcyclic(d) ==
  LET pairs == {<<d.edges[i].source, d.edges[i].target>> : i \in WiresOfClass(d, "internal") \cup WiresOfClass(d, "top-level")}
  IN \A p \in Closure(pairs, Len(d.nodes)) : p[1] # p[2]

SynthesizedSuffixes == {"__sr-read-init", "__sr-write-init", "__iter-read", "__iter-inc", "__iter-write", "__limit", "__cmp", "__condition"}

(* No node id of the diagram is an id lowering synthesizes.                *)
NoSynthesizedIds(d) == \A i, j \in 1..Len(d.nodes) : \A x \in SynthesizedSuffixes : d.nodes[i].id # d.nodes[j].id \o x

(* The WhileLoop nodes of a tree, at any depth, with or without a child    *)
(* graph.                                                                  *)
RECURSIVE WhileLoopsIn(_)
WhileLoopsIn(g) ==
  {g.nodes[i] : i \in {j \in 1..Len(g.nodes) : g.nodes[j].type = "WhileLoop"}}
    \cup UNION {WhileLoopsIn(g.nodes[i].childGraph) : i \in {j \in 1..Len(g.nodes) : g.nodes[j].hasChild}}

DiagramIds(d) == {d.nodes[i].id : i \in 1..Len(d.nodes)}

RfNodeById(d, id) == CHOOSE n \in {d.nodes[i] : i \in 1..Len(d.nodes)} : n.id = id

(* Node id of diagram d is of a known type and its chain of parents, at    *)
(* most fuel long, consists of loop containers of the diagram up to a      *)
(* node without parent.                                                    *)
RECURSIVE ChainLowered(_, _, _)
ChainLowered(d, id, fuel) ==
  /\ fuel > 0
  /\ id \in DiagramIds(d)
  /\ RF_TO_ENGINE_TYPE(RfNodeById(d, id).type) # ""
  /\ LET parent == RfNodeById(d, id).parentNode
     IN IF parent = "" THEN TRUE
        ELSE IF parent \notin DiagramIds(d) THEN FALSE
        ELSE RF_TO_ENGINE_TYPE(RfNodeById(d, parent).type) = "WhileLoop" /\ ChainLowered(d, parent, fuel - 1)

(* The edges of g between nodes of g, as pairs.                            *)
NodePairs(g) == {p \in EdgePairs(g) : HasNode(g, p[1]) /\ HasNode(g, p[2])}

(* The nodes of g on a cycle of its edges.                                 *)
OnCycle(g) == {n \in NodeIds(g) : <<n, n>> \in Closure(NodePairs(g), Len(g.nodes))}

(* The nodes of g off every cycle that no edge enters from a node of g.    *)
Roots(g) == {n \in NodeIds(g) \ OnCycle(g) : \A p \in NodePairs(g) : p[2] # n}

(* The nodes of g reached without passing through a node on a cycle: the   *)
(* roots and what a path of nodes off every cycle leads to from a root.    *)
ReachedOffCycles(g) ==
  LET off == {p \in NodePairs(g) : p[1] \notin OnCycle(g) /\ p[2] \notin OnCycle(g)}
  IN Roots(g) \cup {n \in NodeIds(g) \ OnCycle(g) : \E r \in Roots(g) : <<r, n>> \in Closure(off, Len(g.nodes))}

TimesEvaluated(f, n) == Cardinality({i \in 1..Len(f.trace) : f.trace[i] = n})

(* The number of nodes of graph g of the given type, bound to the given    *)
(* register when one is given.                                             *)
CountNodes(g, type, register) == Cardinality({i \in 1..Len(g.nodes) : g.nodes[i].type = type /\ (register = "" \/ g.nodes[i].data.register = register)})

HasEarlier == earlier # <<>>

Earlier == earlier[1]

WireById(d, id) == d.edges[CHOOSE i \in 1..Len(d.edges) : d.edges[i].id = id]

-----------------------------------------------------------------------------
(* C1: in executeGraph and in every pass over a child graph, for every     *)
(* edge producer->consumer of an acyclic graph whose edge endpoints are    *)
(* all nodes of the graph, the producer is evaluated strictly before the   *)
(* consumer: a consumer is never evaluated before its producer was, no     *)
(* node is evaluated twice, and when the pass is over every node has been  *)
(* evaluated.                                                              *)
C1_ProducerBeforeConsumer ==
  \A f \in Frames :
    (IsGraphFrame(f) /\ Acyclic(f.graph) /\ EdgesWithinGraph(f.graph)) =>
      /\ \A p \in EdgePairs(f.graph) : p[2] \in SeqToSet(f.trace) => Before(f.trace, p[1], p[2])
      /\ \A i, j \in 1..Len(f.trace) : i # j => f.trace[i] # f.trace[j]
      /\ f.idx = Len(f.sorted) => SeqToSet(f.trace) = NodeIds(f.graph)

C1_Witness ==
  /\ stack # <<>>
  /\ Top.fn = "executeGraph"
  /\ NodeOrder(Top.graph) = <<"c", "b", "a">>
  /\ Top.graph.edges = <<Edge("b", "result", "c", "value"), Edge("a", "value", "b", "a")>>
  /\ Top.trace = <<"a", "b", "c">>

(* C2: within one pass every ShiftRegisterRead yields the value its        *)
(* register held when the pass began, and the register map is not changed  *)
(* while the pass runs; so a<-b, b<-a swaps, and a read ordered after a    *)
(* write of the same pass still sees the old value.                        *)
C2_ReadsSeePrePassValues ==
  /\ \A i \in 2..Len(stack) :
       stack[i].fn = "executeChildGraphIteration" =>
         /\ stack[i - 1].shiftRegisters = stack[i].passStart
         /\ \A id \in DOMAIN stack[i].nodeOutputs :
              NodeMapGet(stack[i].graph, id).type = "ShiftRegisterRead" =>
                stack[i].nodeOutputs[id] = [value |-> Get(stack[i].passStart, NodeMapGet(stack[i].graph, id).data.register)]
  /\ (pc = "done" /\ input.family = "swap") =>
       result = TwoOutputs(IF input.n % 2 = 1 THEN input.v0 + 1 ELSE input.v0, IF input.n % 2 = 1 THEN input.v0 ELSE input.v0 + 1)
  /\ (pc = "done" /\ input.family = "write-then-read" /\ input.n >= 1) =>
       result = TwoOutputs(input.v0 + 7, IF input.n = 1 THEN input.v0 ELSE input.v0 + 7)

C2_Witness ==
  /\ Len(stack) >= 2
  /\ Top.fn = "executeChildGraphIteration"
  /\ Before(Top.trace, "write-a", "read-a")
  /\ Get(Top.nodeOutputs["write-a"], "value") # Get(Top.nodeOutputs["read-a"], "value")

(* C3: a WhileLoop with cap C runs exactly min(C, p) passes, p the first   *)
(* pass at whose end the condition was false: every pass but the last      *)
(* ended with a true condition, a loop that ran fewer than C passes ended  *)
(* on a false one, and no pass is begun after a false condition or beyond  *)
(* the cap.                                                                *)
C3_PassCount ==
  /\ \A h \in Invocations :
       /\ Len(h.conds) = h.passes
       /\ h.passes <= Max(h.cap.n, 0)
       /\ \A i \in 1..(h.passes - 1) : h.conds[i]
       /\ h.passes < h.cap.n => (h.passes >= 1 /\ ~h.conds[h.passes])
  /\ \A i \in 2..Len(stack) :
       stack[i].fn = "executeChildGraphIteration" =>
         /\ \A j \in 1..Len(stack[i - 1].conds) : stack[i - 1].conds[j]
         /\ stack[i - 1].iterations < MaxIterationsOf(stack[i - 1].node).n
  /\ (pc = "done" /\ input.family = "counter") => history[1].passes = Min(input.n, Max(1, input.m - input.v0))

C3_Witness == \E h \in Invocations : h.cap.n = 3 /\ h.passes = 2 /\ ~h.conds[2]

(* C4: cap precedence: condition always true, body v <- v+1 seeded with    *)
(* v0, maxIterations N >= 0: exactly N passes and output v0 + N.           *)
C4_CapPrecedence ==
  (pc = "done" /\ input.family = "cap") => (result = Display(Num(input.v0 + input.n)) /\ history[1].passes = input.n)

C4_Witness == pc = "done" /\ input = Case("cap", 0, 0, 3) /\ graph = CapLoopGraph(0, 3) /\ result = Display(Num(3))

(* C5: loop correctness: seed v0, body v <- v+1, condition (v+1) < L,      *)
(* v0 < L and L - v0 <= maxIterations: the output is L.                    *)
C5_LoopCorrectness ==
  (pc = "done" /\ input.family = "counter" /\ input.v0 < input.m /\ input.m - input.v0 <= input.n) => result = Display(Num(input.m))

C5_Witness == pc = "done" /\ input = Case("counter", 0, 2, 3) /\ graph = CounterLoopGraph(0, 2, 3) /\ result = Display(Num(2)) /\ history[1].passes = 2

(* C6: nesting: the outer counter stops after M passes, the inner counter  *)
(* after N passes per outer pass, the inner body adds 1 and the inner      *)
(* result is written to the outer register: the output is v0 + M*N.        *)
C6_Nesting ==
  (pc = "done" /\ input.family = "nested") => result = Display(Num(input.v0 + input.m * input.n))

C6_Witness == pc = "done" /\ input = Case("nested", 0, 3, 2) /\ graph = NestedLoopGraph(0, 3, 2, NestedCap) /\ result = Display(Num(6)) /\ Len(history) = 4

(* C7: every evaluation of a WhileLoop starts from a register map built    *)
(* only from its own resolved inputs and 0-defaults for the registers its  *)
(* child graph reads, whatever a previous evaluation or an enclosing loop  *)
(* left in registers of the same name.                                     *)
C7_FreshRegisters ==
  /\ \A f \in Frames : f.fn = "executeWhileLoop" => FreshSeed(f.node, f.inputs, f.seed) /\ (f.iterations = 0 => f.shiftRegisters = f.seed)
  /\ \A h \in Invocations : h.loop = "inner-loop" => (DOMAIN h.seed = {"init", "iter"} /\ h.seed["iter"] = Num(0) /\ h.seed["init"] = Get(h.inputs, "init"))

C7_Witness ==
  /\ Len(stack) = 4
  /\ Top.fn = "executeWhileLoop"
  /\ Top.node.id = "inner-loop"
  /\ Top.iterations = 0
  /\ \E h \in Invocations : h.loop = "inner-loop" /\ h.registers["iter"] = Num(2)
  /\ stack[2].shiftRegisters["iter"] = Num(1)
  /\ Top.shiftRegisters["iter"] = Num(0)

(* C8: a loop container lowered with maxIterations = N runs its body       *)
(* exactly N times: with constant c on 'init', a body adding 1 between the *)
(* tunnels and 'result' on an Indicator, the Indicator shows c + N; with   *)
(* such a loop of cap N nested through tunnel wires in a container of cap  *)
(* M, it shows c + M*N.                                                    *)
C8_LoweredLoopRunsCapTimes ==
  /\ (pc = "done" /\ input.family = "single-loop") =>
       /\ result = [x \in {"result-ind"} |-> [value |-> Num(input.v0 + input.n)]]
       /\ Len(history) = 1 /\ history[1].passes = input.n
  /\ (pc = "done" /\ input.family = "nested-loops") =>
       /\ result = [x \in {"result-ind"} |-> [value |-> Num(input.v0 + input.m * input.n)]]
       /\ Len(history) = input.m + 1
       /\ \A h \in Invocations : h.passes = IF h.loop = "inner-loop" THEN input.n ELSE input.m

C8_Witness ==
  /\ pc = "done"
  /\ call = "runDiagram"
  /\ diagram = NestedLoopDiagram(1, 3, 2)
  /\ updates = [x \in {"result-ind"} |-> Num(7)]

(* C9: a child graph without a LoopCondition node behaves as if the        *)
(* condition were always true: exactly maxIterations passes, and a normal  *)
(* return.                                                                 *)
C9_NoConditionRunsToCap ==
  input.family = "no-condition" =>
    /\ pc # "error"
    /\ \A h \in Invocations : h.passes = input.n /\ \A i \in 1..input.n : h.conds[i]
    /\ pc = "done" => (Len(history) = 1 /\ result = Display(Num(input.v0 + input.n)))

C9_Witness == pc = "done" /\ graph = NoConditionLoopGraph(0, 3) /\ Len(history) = 1 /\ history[1].passes = 3 /\ result = Display(Num(3))

(* C10: every call of executeGraph on a graph tree whose loops all have a  *)
(* child graph and a finite cap returns a result, also when a loop         *)
(* condition never becomes false: the running call can always take its     *)
(* next step, the steps it takes stay within a budget computed from the    *)
(* tree and its caps, and it never ends in an error.                       *)
C10_Terminates ==
  AllLoopsHaveChildGraph(graph) =>
    /\ pc # "error"
    /\ pc = "running" => (CanStep /\ steps <= StepBudget(graph))
    /\ pc = "done" => steps <= 1 + StepBudget(graph)

C10_Witness == pc = "done" /\ input = Case("cap", 1, 0, 3) /\ history[1].passes = 3 /\ history[1].conds[3] /\ steps > 3 * 5

C12_MissingProducerStillEvaluated ==
  \A f \in Frames :
    (IsGraphFrame(f) /\ Acyclic(f.graph) /\ f.idx = Len(f.sorted)) =>
      \A i \in 1..Len(f.graph.edges) :
        (~HasNode(f.graph, f.graph.edges[i].from.nodeId) /\ HasNode(f.graph, f.graph.edges[i].to.nodeId)) =>
          f.graph.edges[i].to.nodeId \in DOMAIN f.nodeOutputs

(* C13: disconnected sink: an Indicator with no incoming wire has an entry *)
(* keyed by its id in the execution result, its 'value' is undefined, and  *)
(* the run does not raise.                                                 *)
C13_DisconnectedSink ==
  (call \in {"executeGraph", "runDiagram"} /\ pc # "running") =>
    \A i \in 1..Len(graph.nodes) :
      (graph.nodes[i].type = "Indicator" /\ \A j \in 1..Len(graph.edges) : graph.edges[j].to.nodeId # graph.nodes[i].id) =>
        /\ pc \in {"awaiting", "done"}
        /\ graph.nodes[i].id \in DOMAIN result
        /\ Get(result[graph.nodes[i].id], "value") = Undef

C13_Witness ==
  /\ pc = "done"
  /\ call = "runDiagram"
  /\ diagram = FlatDiagram(Num(1), 0)
  /\ result = [x \in {"ind-result", "ind-direct"} |-> EmptyMap]

(* C14: for every Indicator node of the graph passed to executeGraph the   *)
(* returned outputs hold an entry keyed by the node's id (stated for       *)
(* graphs without an edge cycle).                                          *)
C14_EveryIndicatorReported ==
  (pc = "done" /\ call \in {"executeGraph", "runDiagram"} /\ Acyclic(graph)) =>
    \A i \in 1..Len(graph.nodes) : graph.nodes[i].type = "Indicator" => graph.nodes[i].id \in DOMAIN result

(* C15: whenever an Indicator node is evaluated, at the root graph or      *)
(* inside a WhileLoop's child graph, its value is recorded as a collected  *)
(* result of the execution: the Indicator inside the loop body, evaluated  *)
(* on every pass, is in the outputs with the value of the last pass.       *)
C15_IndicatorInsideLoopReported ==
  (pc = "done" /\ input.family = "probe" /\ history[1].passes >= 1) =>
    ("probe" \in DOMAIN result /\ result["probe"] = [value |-> Num(input.v0 + input.n)])

(* C16: runDiagram returns exactly the Indicator ids whose 'value'         *)
(* terminal holds a number, each mapped to that number; an Indicator whose *)
(* value is absent or not a number is left out.                            *)
C16_UpdatesAreTheNumericValues ==
  (pc = "done" /\ call = "runDiagram") =>
    /\ DOMAIN updates = {id \in DOMAIN result : Get(result[id], "value").k \in {"num", "nan"}}
    /\ \A id \in DOMAIN updates : updates[id] = Get(result[id], "value")

(* C17: the effective iteration cap of a loop is its configured            *)
(* maxIterations when that is a positive integer and 1000 when it is       *)
(* absent or not a number, both in the lowered WhileLoop node's data and   *)
(* in the bound the Runner applies.                                        *)
C17_EffectiveCap ==
  (pc = "done" /\ input.family = "cap-config" /\ (input.m # 0 \/ input.n >= 1)) =>
    /\ NodeMapGet(graph, "loop-1").data.maxIterations = (IF input.m = 0 THEN Num(input.n) ELSE Num(DefaultMaxIterations))
    /\ \A h \in Invocations : h.cap = (IF input.m = 0 THEN Num(input.n) ELSE Num(DefaultMaxIterations))

(* C18: on loop termination each declared output o is populated from the  *)
(* final value of the register chosen in this priority: o itself if a      *)
(* declared input has that name; else the single input if there is one     *)
(* input and one output; else the input at o's index if there is one; else *)
(* the register named o.                                                   *)
C18_OutputRegisterRule ==
  /\ \A h \in Invocations :
       /\ DOMAIN h.outputs = SeqToSet(h.declaredOutputs)
       /\ \A k \in 1..Len(h.declaredOutputs) :
            LET o == h.declaredOutputs[k]
            IN h.outputs[o] = Get(h.registers,
                 CASE o \in SeqToSet(h.declaredInputs) -> o
                   [] o \notin SeqToSet(h.declaredInputs) /\ Len(h.declaredInputs) = 1 /\ Len(h.declaredOutputs) = 1 -> h.declaredInputs[1]
                   [] o \notin SeqToSet(h.declaredInputs) /\ ~(Len(h.declaredInputs) = 1 /\ Len(h.declaredOutputs) = 1) /\ k <= Len(h.declaredInputs) -> h.declaredInputs[k]
                   [] OTHER -> o)
  /\ (pc = "done" /\ input.family = "outputs") =>
       result = CASE input.m = 1 -> [x \in {"out-b", "out-x", "out-y"} |-> [value |-> IF x = "out-y" THEN Num(5 * input.n) ELSE Num(input.v0 + 1)]]
                  [] input.m = 2 -> [x \in {"out-x"} |-> [value |-> Num(input.v0)]]
                  [] input.m = 3 -> [x \in {"out-x", "out-y"} |-> [value |-> IF x = "out-y" THEN Num(5 * input.n) ELSE Num(input.v0)]]
                  [] input.m = 4 -> [x \in {"out-x"} |-> [value |-> Num(input.v0)]]
                  [] input.m = 5 -> [x \in {"out-x"} |-> [value |-> Undef]]

C18_Witness ==
  /\ pc = "done"
  /\ input = Case("outputs", 0, 1, 2)
  /\ history[1].registers = [r \in {"a", "b", "y"} |-> IF r = "a" THEN Num(0) ELSE IF r = "b" THEN Num(1) ELSE Num(10)]
  /\ history[1].outputs = [o \in {"b", "x", "y"} |-> IF o = "y" THEN Num(10) ELSE Num(1)]

(* C19: when a WhileLoop begins evaluating, its register map holds every   *)
(* resolved input's value under the input's name, and every register read  *)
(* by a ShiftRegisterRead of the child graph that no input seeded holds 0:  *)
(* a loop whose 'init' is unwired starts from 0, and the 'iter' counter of  *)
(* a loop that has no input of that name starts at 0 on the first pass.     *)
C19_RegistersSeededFromInputs ==
  /\ \A f \in Frames :
       (f.fn = "executeWhileLoop" /\ f.iterations = 0) =>
         /\ \A r \in DOMAIN f.inputs : r \in DOMAIN f.shiftRegisters /\ f.shiftRegisters[r] = f.inputs[r]
         /\ \A r \in ReadRegisters(f.graph) \ DOMAIN f.inputs : r \in DOMAIN f.shiftRegisters /\ f.shiftRegisters[r] = Num(0)
  /\ \A i \in 2..Len(stack) :
       (stack[i].fn = "executeChildGraphIteration" /\ stack[i - 1].iterations = 0 /\ "iter" \in ReadRegisters(stack[i].graph) /\ "iter" \notin DOMAIN stack[i - 1].inputs) =>
         stack[i].passStart["iter"] = Num(0)
  /\ (pc = "done" /\ input.family = "unwired-init") =>
       (history[1].inputs = EmptyMap /\ history[1].seed = [r \in {"init"} |-> Num(0)] /\ result = Display(Num(input.n)))

C19_Witness ==
  /\ pc = "done"
  /\ input = Case("unwired-init", 1, 0, 2)
  /\ history[1].seed = [r \in {"init"} |-> Num(0)]
  /\ result = Display(Num(2))

(* C20: a WhileLoop node without a child graph is a fatal error: the call  *)
(* fails with an error naming that node and returns no result, not even    *)
(* the outputs of the Indicators evaluated before the loop.                *)
C20_MissingChildGraphIsFatal ==
  /\ pc = "error" => (error # "" /\ stack = <<>> /\ result = EmptyMap /\ updates = EmptyMap)
  /\ input.family = "childless" =>
       /\ pc # "done"
       /\ pc = "error" => error = (IF input.m = 0 THEN "loop" ELSE "inner-loop")
       /\ (pc = "running" /\ CanThrowNoChildGraph) => Get(stack[1].nodeOutputs, "early") = [value |-> Num(0)]

C20_Witness == pc = "error" /\ input = Case("childless", 0, 1, 0) /\ error = "inner-loop" /\ result = EmptyMap /\ steps = 6

(* C21: the missing-child-graph failure aborts before any execution        *)
(* begins: when it is raised, no node of the graph has yet been evaluated. *)
C21_NothingEvaluatedBeforeFailure ==
  (pc = "running" /\ CanThrowNoChildGraph) => \A f \in Frames : f.trace = <<>>

(* C22 as claimed: every flat diagram lowers one to one: one engine node   *)
(* per diagram node with the same id in the same order, one edge per wire  *)
(* with the same endpoints and absent handles read as 'value'.             *)
C22_FlatDiagramLowersOneToOne ==
  (Lowered /\ IsFlat(diagram)) => OneToOne(diagram, graph)

(* C22 as amended: a flat diagram whose node types are all in the          *)
(* vocabulary and whose wires use no tunnel handle lowers one to one: one  *)
(* engine node per diagram node with the same id in the same order, one    *)
(* edge per wire with the same endpoints and absent handles read as        *)
(* 'value'.                                                                *)
C22_KnownFlatDiagramLowersOneToOne ==
  (Lowered /\ IsFlat(diagram) /\ AllTypesKnown(diagram) /\ NoTunnelHandles(diagram)) => OneToOne(diagram, graph)

C22_Witness ==
  /\ pc = "done"
  /\ call = "convertToEngineGraph"
  /\ input = Case("flat-lowering", 0, 0, 0)
  /\ IsFlat(diagram) /\ AllTypesKnown(diagram) /\ NoTunnelHandles(diagram)
  /\ Len(graph.nodes) = 6
  /\ graph.nodes[3].id = "extra-1"
  /\ graph.edges[5] = Edge("ctrl-b", "value", "extra-1", "value")

(* C23 as claimed: a diagram of a single loop container with k internal    *)
(* nodes lowers to at least k+6 engine nodes.                              *)
C23_SingleLoopLowersToKPlusSix ==
  (Lowered /\ IsSingleLoop(diagram)) =>
    TreeSize(graph) >= Cardinality(InternalNodes(diagram, TheLoop(diagram))) + 6

(* C23 as amended: a diagram of a single loop container with k internal    *)
(* nodes, all of a type in the vocabulary, lowers to at least k+6 engine   *)
(* nodes: the child graph holds the ShiftRegisterRead of 'init', the k     *)
(* internal nodes, the ShiftRegisterWrite of 'init', the iteration         *)
(* counter's read, increment and write, the limit constant, the comparator *)
(* and the condition.                                                      *)
C23_KnownSingleLoopLowersToKPlusSix ==
  (Lowered /\ IsSingleLoop(diagram) /\ AllTypesKnown(diagram)) =>
    LET k == Cardinality(InternalNodes(diagram, TheLoop(diagram)))
    IN /\ TreeSize(graph) >= k + 6
       /\ \A L \in LoopsIn(graph) :
            /\ Len(L.childGraph.nodes) = k + 8
            /\ TypesOf(L.childGraph.nodes)[1] = "ShiftRegisterRead"
            /\ \A i \in InternalNodes(diagram, L.id) : HasNode(L.childGraph, diagram.nodes[i].id)
            /\ SubSeq(TypesOf(L.childGraph.nodes), k + 2, k + 8) = <<"ShiftRegisterWrite", "ShiftRegisterRead", "Increment", "ShiftRegisterWrite", "Constant", "LessThan", "LoopCondition">>

C23_Witness ==
  /\ pc = "done"
  /\ call = "convertToEngineGraph"
  /\ input = Case("loop-lowering", 0, 5, 0)
  /\ IsSingleLoop(diagram) /\ AllTypesKnown(diagram)
  /\ TreeSize(graph) = 14
  /\ Len(graph.nodes[1].childGraph.nodes) = 13

(* C24: lowering places every wire in exactly one of four classes, decided *)
(* in this order: tunnel-in if its source handle ends with '-tunnel-in';   *)
(* else tunnel-out if its target handle ends with '-tunnel-out'; else      *)
(* internal if both endpoints are children of the same container; else     *)
(* top-level, which takes the wires on a container's 'init' and 'result'   *)
(* ports and the cross-boundary wires of neither tunnel convention. The    *)
(* root graph's edges are the top-level wires, and a container's child     *)
(* graph has one edge for each of its tunnel-in, tunnel-out and internal   *)
(* wires besides the five of the iteration control.                        *)
C24_WireClassesInOrder ==
  Lowered =>
    /\ \A i \in 1..Len(diagram.edges) : EdgeClass(diagram.nodes, diagram.edges[i]) = WireClass(diagram, diagram.edges[i])
    /\ Len(graph.edges) = Cardinality(WiresOfClass(diagram, "top-level"))
    /\ \A i \in WiresOfClass(diagram, "top-level") : WireAsEdge(diagram.edges[i]) \in EdgeSet(graph)
    /\ \A L \in LoopsIn(graph) :
         Len(L.childGraph.edges) = 5 + Cardinality({i \in WiresOfClass(diagram, "tunnel-in") : diagram.edges[i].source = L.id})
                                     + Cardinality({i \in WiresOfClass(diagram, "tunnel-out") : diagram.edges[i].target = L.id})
                                     + Cardinality({i \in WiresOfClass(diagram, "internal") : IsChildOf(diagram, diagram.edges[i].source, L.id)})

C24_Witness ==
  /\ pc = "done"
  /\ call = "convertToEngineGraph"
  /\ input = Case("loop-lowering", 0, 3, 2)
  /\ EdgeClass(diagram.nodes, WireById(diagram, "e1")) = "top-level"
  /\ EdgeClass(diagram.nodes, WireById(diagram, "e3")) = "tunnel-in"
  /\ EdgeClass(diagram.nodes, WireById(diagram, "e4")) = "internal"
  /\ EdgeClass(diagram.nodes, WireById(diagram, "e5")) = "tunnel-out"
  /\ EdgeClass(diagram.nodes, WireById(diagram, "e6")) = "tunnel-in"
  /\ EdgeClass(diagram.nodes, WireById(diagram, "e7")) = "top-level"
  /\ graph.edges = <<Edge("init-val", "value", "loop-1", "init"), Edge("loop-1", "result", "result-ind", "value"), Edge("in-1", "result", "result-ind", "value")>>
  /\ Len(graph.nodes[2].childGraph.edges) = 11

(* C25: for every lowered loop container L, each tunnel-in wire of L is a  *)
(* child-graph edge from the 'value' output of L's ShiftRegisterRead bound *)
(* to 'init' to the wire's target terminal, each tunnel-out wire of L is a *)
(* child-graph edge from the wire's source terminal to the 'value' input   *)
(* of L's ShiftRegisterWrite bound to 'init', and each internal wire of L  *)
(* is in the child graph with its own endpoints.                           *)
C25_TunnelWiresRewritten ==
  Lowered =>
    \A L \in LoopsIn(graph) :
      LET child == L.childGraph
          srRead == L.id \o "__sr-read-init"
          srWrite == L.id \o "__sr-write-init"
      IN /\ HasNode(child, srRead) /\ NodeMapGet(child, srRead).type = "ShiftRegisterRead" /\ NodeMapGet(child, srRead).data.register = "init"
         /\ HasNode(child, srWrite) /\ NodeMapGet(child, srWrite).type = "ShiftRegisterWrite" /\ NodeMapGet(child, srWrite).data.register = "init"
         /\ \A i \in WiresOfClass(diagram, "tunnel-in") :
              diagram.edges[i].source = L.id =>
                Edge(srRead, "value", diagram.edges[i].target, WireAsEdge(diagram.edges[i]).to.terminal) \in EdgeSet(child)
         /\ \A i \in WiresOfClass(diagram, "tunnel-out") :
              diagram.edges[i].target = L.id =>
                Edge(diagram.edges[i].source, WireAsEdge(diagram.edges[i]).from.terminal, srWrite, "value") \in EdgeSet(child)
         /\ \A i \in WiresOfClass(diagram, "internal") :
              IsChildOf(diagram, diagram.edges[i].source, L.id) => WireAsEdge(diagram.edges[i]) \in EdgeSet(child)

C25_Witness ==
  /\ pc = "done"
  /\ call = "convertToEngineGraph"
  /\ input = Case("loop-lowering", 0, 3, 2)
  /\ LET child == graph.nodes[2].childGraph
     IN /\ graph.nodes[2].id = "loop-1"
        /\ Edge("loop-1__sr-read-init", "value", "in-1", "a") \in EdgeSet(child)
        /\ Edge("loop-1__sr-read-init", "value", "in-3", "value") \in EdgeSet(child)
        /\ Edge("in-1", "result", "loop-1__sr-write-init", "value") \in EdgeSet(child)
        /\ Edge("in-2", "value", "loop-1__sr-write-init", "value") \in EdgeSet(child)
        /\ Edge("in-2", "value", "in-1", "value") \in EdgeSet(child)

(* C26: a diagram node whose type is outside the vocabulary is dropped     *)
(* without error: lowering completes, and no graph of the lowered tree has *)
(* a node of that id, whether the node was top-level or inside a           *)
(* container.                                                              *)
C26_UnknownTypesDropped ==
  Lowered =>
    /\ pc # "idle"
    /\ graph.id = "root"
    /\ \A i \in 1..Len(diagram.nodes) : diagram.nodes[i].type \notin Vocabulary => diagram.nodes[i].id \notin TreeIds(graph)
    /\ (call = "convertToEngineGraph") => (pc = "done" /\ error = "")

C26_Witness ==
  /\ pc = "done"
  /\ call = "convertToEngineGraph"
  /\ error = ""
  /\ input = Case("loop-lowering", 2, 3, 2)
  /\ \E i \in 1..Len(diagram.nodes) : diagram.nodes[i].id = "mystery" /\ diagram.nodes[i].type = "Gauge" /\ diagram.nodes[i].parentNode = ""
  /\ \E i \in 1..Len(diagram.nodes) : diagram.nodes[i].id = "in-2" /\ diagram.nodes[i].type = "Multiply" /\ diagram.nodes[i].parentNode = "loop-1"
  /\ TreeIds(graph) \cap {"mystery", "in-1", "in-2"} = {}
  /\ "in-3" \in TreeIds(graph)

(* C27: executing the same graph twice yields identical results: the       *)
(* second run returns the outputs (or raises the error) of the first, and  *)
(* observes no state left by it: every loop invocation of the second run   *)
(* starts with its registers seeded from its inputs and 0 only.            *)
C27_SecondRunIdentical ==
  (HasEarlier /\ call \in {"executeGraph", "runDiagram"}) =>
    /\ (pc \in {"awaiting", "done", "error"} /\ Earlier.call = call /\ Earlier.graph = graph) =>
         /\ (pc = "error") = (Earlier.pc = "error")
         /\ result = Earlier.result
         /\ error = Earlier.error
    /\ \A f \in Frames : f.fn = "executeWhileLoop" => FreshSeed(f.node, f.inputs, f.seed)

C27_Witness ==
  /\ HasEarlier
  /\ pc = "done"
  /\ call = "executeGraph"
  /\ Earlier.call = "executeGraph"
  /\ Earlier.graph = graph
  /\ input = Case("unwired-init", 1, 0, 2)
  /\ Earlier.registers # EmptyMap
  /\ result # EmptyMap
  /\ result = Earlier.result

(* C28: calls are independent under interleaving: when two runDiagram      *)
(* calls are in flight at once and their steps interleave at the await,    *)
(* each returns exactly the map it returns when it is the only call.       *)
C28_CallsIndependent ==
  /\ (call = "runDiagram" /\ pc = "done" /\ input \in RepeatCases) => updates = AloneUpdates(input)
  /\ (IF HasEarlier THEN Earlier.call = "runDiagram" ELSE FALSE) =>
         /\ Earlier.pc # "error"
         /\ ProjectUpdates(Earlier.result) = AloneUpdates(Earlier.input)
         /\ Earlier.pc = "done" => Earlier.updates = AloneUpdates(Earlier.input)

C28_Witness ==
  /\ HasEarlier
  /\ call = "runDiagram"
  /\ pc = "done"
  /\ input = Case("nested-loops", 1, 2, 1)
  /\ updates = [x \in {"result-ind"} |-> Num(3)]
  /\ Earlier.input = Case("flat-diagram", 1, 1, 0)
  /\ Earlier.pc = "done"
  /\ Earlier.resumedBeside = [input |-> Case("nested-loops", 1, 2, 1), pc |-> "awaiting"]
  /\ Earlier.updates = [x \in {"ind-result", "ind-direct"} |-> IF x = "ind-result" THEN Num(2) ELSE Num(1)]

(* C29: when several edges target the same input terminal of a node, the  *)
(* resolved input is the value read through the last such edge in the      *)
(* graph's edge order; seen at every evaluated Indicator, whose outputs    *)
(* are its resolved inputs.                                                *)
C29_LastEdgeWins ==
  \A f \in Frames :
    IsGraphFrame(f) =>
      \A id \in DOMAIN f.nodeOutputs :
        (HasNode(f.graph, id) /\ NodeMapGet(f.graph, id).type = "Indicator") =>
          /\ DOMAIN f.nodeOutputs[id] = {t \in TerminalsInto(f.graph, id) : EdgesRead(f, id, t) # {}}
          /\ \A t \in DOMAIN f.nodeOutputs[id] :
               LET last == f.graph.edges[SetMax(EdgesRead(f, id, t))]
               IN f.nodeOutputs[id][t] = Get(f.nodeOutputs[last.from.nodeId], last.from.terminal)

C29_Witness ==
  /\ pc = "running"
  /\ call = "executeGraph"
  /\ graph.edges = <<Edge("b", "result", "c", "value"), Edge("a", "value", "c", "value")>>
  /\ Cardinality(EdgesRead(stack[1], "c", "value")) = 2
  /\ "c" \in DOMAIN stack[1].nodeOutputs
  /\ stack[1].nodeOutputs["b"] = [result |-> NaN]
  /\ stack[1].nodeOutputs["c"] = [value |-> Num(1)]

(* C30: node kinds are pure functions of their inputs and configuration:  *)
(* for all integers a, b, v, amount of the range, Add yields a+b, Subtract *)
(* yields a-b, Increment yields v+amount, LessThan yields (a<b), Indicator *)
(* yields its input v, and Constant yields its configured literal.         *)
C30_NodeKindsArePure ==
  input.family = "arith" =>
    LET a == input.v0
        b == input.m
        expected == [add |-> [result |-> Num(a + b)], sub |-> [result |-> Num(a - b)], inc |-> [result |-> Num(a + b)],
                     lt |-> [result |-> Bool(a < b)], a |-> [value |-> Num(a)], b |-> [value |-> Num(b)]]
        shown == [x \in {"add-out", "sub-out", "inc-out", "lt-out", "a-out"} |->
                    [value |-> CASE x = "add-out" -> Num(a + b) [] x = "sub-out" -> Num(a - b) [] x = "inc-out" -> Num(a + b)
                                 [] x = "lt-out" -> Bool(a < b) [] x = "a-out" -> Num(a)]]
    IN /\ pc # "error"
       /\ \A f \in Frames : \A id \in DOMAIN f.nodeOutputs :
            f.nodeOutputs[id] = IF id \in DOMAIN expected THEN expected[id] ELSE shown[id]
       /\ pc = "done" => result = shown

C30_Witness ==
  /\ pc = "done"
  /\ input = Case("arith", 0 - 2, 1, 0)
  /\ result["add-out"].value = Num(0 - 1)
  /\ result["sub-out"].value = Num(0 - 3)
  /\ result["inc-out"].value = Num(0 - 1)
  /\ result["lt-out"].value = Bool(TRUE)
  /\ result["a-out"].value = Num(0 - 2)

(* C31: lowering expresses looping only through shift registers, never    *)
(* through an edge cycle: for any diagram whose non-tunnel wires form no   *)
(* directed cycle and whose node ids are not synthesized ids, every graph  *)
(* of the lowered tree, taken without its nested child graphs, has an      *)
(* acyclic edge relation.                                                  *)
C31_LoweredGraphsAcyclic ==
  (Lowered /\ WiresAcyclic(diagram) /\ NoSynthesizedIds(diagram)) =>
    /\ Acyclic(graph)
    /\ \A L \in LoopsIn(graph) : Acyclic(L.childGraph)

C31_Witness ==
  /\ pc = "done"
  /\ call = "runDiagram"
  /\ input = Case("nested-loops", 1, 2, 2)
  /\ WiresAcyclic(diagram)
  /\ Cardinality(LoopsIn(graph)) = 2
  /\ \A L \in LoopsIn(graph) : Len(L.childGraph.edges) = (IF L.id = "outer-loop" THEN 7 ELSE 8) /\ Acyclic(L.childGraph)

(* C32: the register writes collected in the pass whose loop condition    *)
(* evaluates false, or in the pass that reaches the cap, are committed     *)
(* before the loop exits: after every pass the registers hold the writes   *)
(* of that pass, and the WhileLoop's outputs are read from the registers   *)
(* as the last pass that ran left them.                                    *)
C32_LastPassCommitted ==
  /\ \A f \in Frames :
       (f.fn = "executeWhileLoop" /\ f.iterations >= 1) =>
         \A r \in DOMAIN f.lastWrites : r \in DOMAIN f.shiftRegisters /\ f.shiftRegisters[r] = f.lastWrites[r]
  /\ \A h \in Invocations :
       h.passes >= 1 =>
         /\ \A r \in DOMAIN h.lastWrites : r \in DOMAIN h.registers /\ h.registers[r] = h.lastWrites[r]
         /\ \A o \in DOMAIN h.outputs : h.outputs[o] = Get(h.registers, findRegisterForOutput([inputs |-> h.declaredInputs, outputs |-> h.declaredOutputs], o))
  /\ (pc = "done" /\ input.family = "counter") => result = Display(Num(input.v0 + history[1].passes))

C32_Witness ==
  /\ pc = "done"
  /\ input = Case("counter", 0, 2, 3)
  /\ history[1].passes = 2
  /\ ~history[1].conds[2]
  /\ history[1].lastWrites # EmptyMap
  /\ \E r \in DOMAIN history[1].lastWrites : history[1].registers[r] = Num(2) /\ history[1].seed[r] = Num(0)
  /\ result = Display(Num(2))

(* C33: if a child graph contains a LoopCondition node whose 'continue'   *)
(* input has no producing edge, the loop stops after exactly one pass, for *)
(* any cap >= 1: the unconnected condition counts as false.                *)
C33_OpenConditionStopsAfterOnePass ==
  (input.family = "open-condition" /\ input.n >= 1) =>
    /\ pc # "error"
    /\ \A f \in Frames : f.fn = "executeWhileLoop" => f.iterations <= 1
    /\ \A h \in Invocations : h.passes = 1 /\ h.conds = <<FALSE>> /\ h.cap = Num(input.n)
    /\ pc = "done" => (Len(history) = 1 /\ result = Display(Num(input.v0 + 1)))

C33_Witness ==
  /\ pc = "done"
  /\ input = Case("open-condition", 1, 0, 3)
  /\ history[1].passes = 1
  /\ history[1].cap = Num(3)
  /\ result = Display(Num(2))

(* C34: a ShiftRegisterWrite node with no incoming edge commits an        *)
(* undefined value to its register at the end of every pass; so a lowered  *)
(* loop container with 'init' wired and no tunnel-out wire outputs         *)
(* undefined on 'result' for any cap >= 1, and its init value only when    *)
(* the cap is 0.                                                           *)
C34_UnwiredWriteCommitsUndefined ==
  input.family = "no-tunnel-out" =>
    /\ \A f \in Frames : (f.fn = "executeWhileLoop" /\ f.iterations >= 1) =>
         /\ "init" \in DOMAIN f.lastWrites /\ f.lastWrites["init"] = Undef
         /\ f.shiftRegisters["init"] = Undef
         /\ f.seed["init"] = Num(input.v0)
    /\ \A h \in Invocations :
         /\ h.passes = input.n
         /\ h.seed["init"] = Num(input.v0)
         /\ h.registers["init"] = (IF input.n >= 1 THEN Undef ELSE Num(input.v0))
         /\ h.outputs["result"] = (IF input.n >= 1 THEN Undef ELSE Num(input.v0))
    /\ pc \in {"awaiting", "done"} => result = [x \in {"result-ind"} |-> [value |-> IF input.n >= 1 THEN Undef ELSE Num(input.v0)]]
    /\ pc = "done" => updates = (IF input.n >= 1 THEN EmptyMap ELSE [x \in {"result-ind"} |-> Num(input.v0)])

C34_Witness ==
  /\ pc = "done"
  /\ input = Case("no-tunnel-out", 1, 0, 2)
  /\ history[1].passes = 2
  /\ history[1].seed["init"] = Num(1)
  /\ history[1].lastWrites["init"] = Undef
  /\ history[1].outputs["result"] = Undef
  /\ updates = EmptyMap

(* C35: every WhileLoop node in the tree produced by convertToEngineGraph, *)
(* at any nesting depth, carries a child graph; hence runDiagram never     *)
(* raises the 'has no child graph' error, for any diagram.                 *)
C35_LoweredLoopsHaveChildGraphs ==
  /\ Lowered => \A L \in WhileLoopsIn(graph) : L.hasChild /\ Len(L.childGraph.nodes) >= 8
  /\ call = "runDiagram" => (pc # "error" /\ error = "" /\ ~(pc = "running" /\ CanThrowNoChildGraph))
  /\ (IF HasEarlier THEN Earlier.call = "runDiagram" ELSE FALSE) => Earlier.pc # "error"

C35_Witness ==
  /\ pc = "done"
  /\ call = "runDiagram"
  /\ input = Case("nested-loops", 0, 3, 1)
  /\ {L.id : L \in WhileLoopsIn(graph)} = {"outer-loop", "inner-loop"}
  /\ \A L \in WhileLoopsIn(graph) : L.hasChild
  /\ Len(history) = 4
  /\ error = ""

(* C36: a diagram node appears in the lowered tree only if its chain of   *)
(* parent containers consists of lowered loop containers up to a top-level *)
(* node: a node whose parent is missing from the diagram, of an            *)
(* unrecognized type, not a loop container, or on a cycle of parent        *)
(* references is absent from every graph, and lowering still completes     *)
(* without error. Every node of a known type with such a chain appears.    *)
C36_OnlyContainedNodesLowered ==
  Lowered =>
    /\ TreeIds(graph) \cap DiagramIds(diagram) = {id \in DiagramIds(diagram) : ChainLowered(diagram, id, Len(diagram.nodes))}
    /\ input.family = "orphans" =>
         /\ pc = "done" /\ error = ""
         /\ TreeIds(graph) \cap {"lost", "ghost-loop", "gauge-1", "mid", "under-mid", "add-top", "lost-loop", "under-lost-loop", "loop-a", "loop-b"} = (IF input.m = 3 THEN {"add-top"} ELSE {})
         /\ {"init-val", "loop-1", "in-1", "loop-2", "deep", "last", "result-ind"} \subseteq TreeIds(graph)

C36_Witness ==
  /\ pc = "done"
  /\ call = "convertToEngineGraph"
  /\ input = Case("orphans", 0, 4, 0)
  /\ {"loop-a", "loop-b", "lost"} \subseteq DiagramIds(diagram)
  /\ TreeIds(graph) \cap {"loop-a", "loop-b", "lost"} = {}
  /\ "deep" \in TreeIds(graph)
  /\ ~ChainLowered(diagram, "loop-a", Len(diagram.nodes))

(* C37: if a graph's edges contain a literal cycle, executeGraph still    *)
(* completes without error: when the pass is over, the nodes on the cycle  *)
(* and every node reachable only through them have not been evaluated, and *)
(* every other node has been evaluated exactly once.                       *)
C37_CycleSkippedOthersEvaluatedOnce ==
  /\ input.family = "cycle" => pc # "error"
  /\ \A f \in Frames :
       (f.fn = "executeGraph" /\ ~Acyclic(f.graph) /\ f.idx = Len(f.sorted)) =>
         \A n \in NodeIds(f.graph) :
           IF n \in ReachedOffCycles(f.graph)
           THEN TimesEvaluated(f, n) = 1 /\ n \in DOMAIN f.nodeOutputs
           ELSE TimesEvaluated(f, n) = 0 /\ n \notin DOMAIN f.nodeOutputs

(* C38: every child graph produced by lowering a loop container contains  *)
(* exactly one LoopCondition node, exactly one ShiftRegisterRead and one   *)
(* ShiftRegisterWrite bound to 'init', and exactly one ShiftRegisterRead   *)
(* and one ShiftRegisterWrite bound to 'iter', whatever nodes and wires    *)
(* the diagram places inside the container.                                *)
C38_OneConditionAndRegisterPairPerChildGraph ==
  Lowered =>
    \A L \in WhileLoopsIn(graph) :
      /\ CountNodes(L.childGraph, "LoopCondition", "") = 1
      /\ CountNodes(L.childGraph, "ShiftRegisterRead", "init") = 1
      /\ CountNodes(L.childGraph, "ShiftRegisterWrite", "init") = 1
      /\ CountNodes(L.childGraph, "ShiftRegisterRead", "iter") = 1
      /\ CountNodes(L.childGraph, "ShiftRegisterWrite", "iter") = 1
      /\ CountNodes(L.childGraph, "ShiftRegisterRead", "") = 2
      /\ CountNodes(L.childGraph, "ShiftRegisterWrite", "") = 2

C38_Witness ==
  /\ pc = "done"
  /\ call = "convertToEngineGraph"
  /\ input = Case("loop-lowering", 1, 5, 2)
  /\ Cardinality(WhileLoopsIn(graph)) = 1
  /\ \A L \in WhileLoopsIn(graph) :
       /\ Len(L.childGraph.nodes) = 12
       /\ Len(L.childGraph.edges) > 5
       /\ CountNodes(L.childGraph, "LoopCondition", "") = 1
       /\ CountNodes(L.childGraph, "ShiftRegisterWrite", "iter") = 1

====
